---- MODULE Spec2Model ----
(***************************************************************************)
(* A model of the sparse-coding pipeline of src/run.py: the synthetic      *)
(* dataset generator, the training step of the autoencoder, the dictionary *)
(* comparison (mean max cosine similarity and the assignment against the   *)
(* next larger dictionary) and the sweep over the (l1, dictionary size)    *)
(* grid.  Each part has a specification of its own; the variables of the   *)
(* other parts stay at their idle values.                                  *)
(*                                                                         *)
(* Numbers.  Real numbers are exact rationals [num, den] with den > 0.     *)
(* A uniform draw of torch.rand is k/GridDen with k in 0..GridDen-1 (the   *)
(* interval [0,1), zero included); a value of the normal CDF is k/GridDen  *)
(* with k in 1..GridDen.  Floating-point rounding is not modelled.         *)
(***************************************************************************)
EXTENDS Integers, Sequences, FiniteSets, TLC

VARIABLES
    \* RandomDatasetGenerator and one call of send (src/run.py 187-317)
    gen_pc, correlated, n_ground_truth_components, batch_size,
    feature_num_nonzero, feature_prob_decay, component_probs, dataset_codes,
    \* one call of run_single_go or run_with_real_data (src/run.py 430-490, 709-806)
    train_pc, train_fn, decoder, n_batches, n_steps, completed_batches,
    old_dict, new_dict, learned_dictionary,
    \* one call of run_mmcs_with_larger (src/run.py 853-888)
    larger_pc, learned_dicts, cfg_threshold, threshold, loop_ndx,
    av_mmcs_with_larger_dicts, feats_above_threshold,
    full_max_cosine_sim_for_histograms,
    smaller_dict, larger_dict_clone, row_ind, col_ind, max_cosine_similarities,
    \* calls of mean_max_cosine_similarity (src/run.py 379-400)
    mmcs_pc, ground_truth_features, learned_rows, mmcs, first_rows, first_mmcs,
    \* run_toy_model and run_real_data_model: the sweep (src/run.py 621-707, 943-1166)
    sweep_pc, run_toy, cfg_activation_dim, cfg_n_ground_truth_components,
    l1_exp_low, l1_exp_high, l1_exp_base,
    dict_ratio_exp_low, dict_ratio_exp_high, dict_ratio_exp_base,
    mini_runs, mini_run, cell_ndx, trained,
    save_after_mini, auto_encoders, saved_models, compare_calls, written,
    printed, failed_cell, loaded_autoencoders, load_ndx,
    \* interpret_across_baselines with several workers (src/interpret_autoencoder.py 622-671)
    queue_pc, n_gpus, n_jobs, n_put, queue_buffer, queue_pipe, worker_pc,
    worker_job, run_count,
    \* the sentence datasets of run_real_data_model (src/run.py 39-62, 928-940, 972-982, 1133-1137)
    data_pc, dataset_name, source_len, max_lines, folder_lines, cfg_max_lines,
    refresh_data, n_lines, data_mini_runs, data_mini_run, sentence_datasets,
    \* the generator object of run_toy_model and the tensors it refers to (src/run.py 188-242, 430-490, 633-667)
    shared_pc, tensors, generators, data_generator, constructed, toy_cells, toy_cell,
    cell_generators, epochs, epoch, batch,
    \* a learned dictionary object and its caller (src/autoencoders/learned_dict.py 7-71)
    sae_pc, sae_class, norm_encoder, sae_tensors, sae, caller_batch, sae_made,
    sae_calls, to_device_calls, sae_result,
    \* two runs of main with the same seed (src/run.py 245-349, 1169-1178)
    seed, seed_device, n_sends, runs,
    \* make_activation_dataset and the chunk files it writes (src/run.py 809-850)
    chunk_pc, sentence_batches, max_chunks, n_chunks, batch_idx, chunk_dataset,
    n_saved_chunks, chunk_files,
    \* the dead-feature counts of run_with_real_data and get_n_dead_features (src/run.py 403-423, 709-806, 1046-1047)
    dead_pc, dict_features, dead_calls, dead_n_batches, feature_activations,
    running_dead_features, active_features, dead_features_entry, source_kind,
    sampled, n_dead_features,
    \* the configuration: the keys of cfg, the command line, the reads and writes of the drivers
    keys_pc, argv, folder_empty, cfg_keys, keys_program, keys_ip, keys_missing,
    \* the three loops of one call of run_with_real_data (src/run.py 728-806)
    loop_pc, loop_epochs, max_batches, chunk_lens, loop_completed, loop_epoch,
    chunk_order, chunk_ndx, loop_batch_idx, loop_n_batches, breakout,
    optimizer_steps, total_batches,
    \* the hook resample_ablation_hook returns, and one call of it (src/erasure.py 65-160)
    hook_pc, ablation_type, ablation_rank, lens, features_to_ablate,
    corrupted_codes, handicap, ablation_mask, hook_tensor, hook_returned,
    activation_dict,
    \* save_torch_models over the grid of run_real_data_model (src/run.py 905-916, 984-996, 1116-1122)
    store_pc, store_l1_range, store_dict_sizes, store_models, store_ndx,
    models_dict, saved_file,
    \* the global step over the mini-runs of run_real_data_model (src/run.py 1022-1044, 728-806)
    steps_pc, steps_cells, steps_mini_runs, steps_mini_run, steps_cell, step_n,
    steps_available, call_completed_batches, call_n_batches, global_step,
    started_from

genVars == <<gen_pc, correlated, n_ground_truth_components, batch_size,
             feature_num_nonzero, feature_prob_decay, component_probs,
             dataset_codes>>

trainVars == <<train_pc, train_fn, decoder, n_batches, n_steps,
               completed_batches, old_dict, new_dict, learned_dictionary>>

largerVars == <<larger_pc, learned_dicts, cfg_threshold, threshold, loop_ndx,
                av_mmcs_with_larger_dicts, feats_above_threshold,
                full_max_cosine_sim_for_histograms,
                smaller_dict, larger_dict_clone, row_ind, col_ind,
                max_cosine_similarities>>

mmcsVars == <<mmcs_pc, ground_truth_features, learned_rows, mmcs, first_rows,
              first_mmcs>>

sweepVars == <<sweep_pc, run_toy, cfg_activation_dim, cfg_n_ground_truth_components,
               l1_exp_low, l1_exp_high, l1_exp_base,
               dict_ratio_exp_low, dict_ratio_exp_high, dict_ratio_exp_base,
               mini_runs, mini_run, cell_ndx, trained,
               save_after_mini, auto_encoders, saved_models, compare_calls,
               written, printed, failed_cell, loaded_autoencoders, load_ndx>>

queueVars == <<queue_pc, n_gpus, n_jobs, n_put, queue_buffer, queue_pipe, worker_pc,
               worker_job, run_count>>

dataVars == <<data_pc, dataset_name, source_len, max_lines, folder_lines, cfg_max_lines,
              refresh_data, n_lines, data_mini_runs, data_mini_run, sentence_datasets>>

sharedVars == <<shared_pc, tensors, generators, data_generator, constructed, toy_cells,
                toy_cell, cell_generators, epochs, epoch, batch>>

saeVars == <<sae_pc, sae_class, norm_encoder, sae_tensors, sae, caller_batch, sae_made,
             sae_calls, to_device_calls, sae_result>>

seedVars == <<seed, seed_device, n_sends, runs>>

chunkVars == <<chunk_pc, sentence_batches, max_chunks, n_chunks, batch_idx,
               chunk_dataset, n_saved_chunks, chunk_files>>

deadVars == <<dead_pc, dict_features, dead_calls, dead_n_batches,
              feature_activations, running_dead_features, active_features,
              dead_features_entry, source_kind, sampled, n_dead_features>>

keysVars == <<keys_pc, argv, folder_empty, cfg_keys, keys_program, keys_ip,
              keys_missing>>

loopVars == <<loop_pc, loop_epochs, max_batches, chunk_lens, loop_completed,
              loop_epoch, chunk_order, chunk_ndx, loop_batch_idx,
              loop_n_batches, breakout, optimizer_steps, total_batches>>

hookVars == <<hook_pc, ablation_type, ablation_rank, lens, features_to_ablate,
              corrupted_codes, handicap, ablation_mask, hook_tensor,
              hook_returned, activation_dict>>

storeVars == <<store_pc, store_l1_range, store_dict_sizes, store_models,
               store_ndx, models_dict, saved_file>>

stepsVars == <<steps_pc, steps_cells, steps_mini_runs, steps_mini_run,
               steps_cell, step_n, steps_available, call_completed_batches,
               call_n_batches, global_step, started_from>>

\* the queue, the datasets, the shared generator, the dictionaries and the seeds
extVars == <<queueVars, dataVars, sharedVars, saeVars, seedVars, chunkVars, deadVars, keysVars, loopVars, hookVars, storeVars, stepsVars>>

\* the pipeline of src/run.py
coreVars == <<genVars, trainVars, largerVars, mmcsVars, sweepVars>>

queueOthers == <<coreVars, dataVars, sharedVars, saeVars, seedVars, chunkVars, deadVars, keysVars, loopVars, hookVars, storeVars, stepsVars>>

dataOthers == <<coreVars, queueVars, sharedVars, saeVars, seedVars, chunkVars, deadVars, keysVars, loopVars, hookVars, storeVars, stepsVars>>

sharedOthers == <<coreVars, queueVars, dataVars, saeVars, seedVars, chunkVars, deadVars, keysVars, loopVars, hookVars, storeVars, stepsVars>>

saeOthers == <<coreVars, queueVars, dataVars, sharedVars, seedVars, chunkVars, deadVars, keysVars, loopVars, hookVars, storeVars, stepsVars>>

seedOthers == <<coreVars, queueVars, dataVars, sharedVars, saeVars, chunkVars, deadVars, keysVars, loopVars, hookVars, storeVars, stepsVars>>

chunkOthers == <<coreVars, queueVars, dataVars, sharedVars, saeVars, seedVars, deadVars, keysVars, loopVars, hookVars, storeVars, stepsVars>>

deadOthers == <<coreVars, queueVars, dataVars, sharedVars, saeVars, seedVars, chunkVars, keysVars, loopVars, hookVars, storeVars, stepsVars>>

keysOthers == <<coreVars, queueVars, dataVars, sharedVars, saeVars, seedVars, chunkVars, deadVars, loopVars, hookVars, storeVars, stepsVars>>

loopOthers == <<coreVars, queueVars, dataVars, sharedVars, saeVars, seedVars, chunkVars, deadVars, keysVars, hookVars, storeVars, stepsVars>>

hookOthers == <<coreVars, queueVars, dataVars, sharedVars, saeVars, seedVars, chunkVars, deadVars, keysVars, loopVars, storeVars, stepsVars>>

storeOthers == <<coreVars, queueVars, dataVars, sharedVars, saeVars, seedVars, chunkVars, deadVars, keysVars, loopVars, hookVars, stepsVars>>

stepsOthers == <<coreVars, queueVars, dataVars, sharedVars, saeVars, seedVars, chunkVars, deadVars, keysVars, loopVars, hookVars, storeVars>>

vars == <<genVars, trainVars, largerVars, mmcsVars, sweepVars, extVars>>

-----------------------------------------------------------------------------
(* Bounds of the model *)

GridDen == 2
MaxComponents == 2
MaxBatchSize == 1
MaxDictComponents == 1
MaxSteps == 2
MaxL1 == 2
MaxSizes == 2
MaxLearnedRows == 3
MaxMiniRuns == 2
MaxWorkers == 2
MaxJobs == 2
MaxSourceLen == 4
MaxLines == 2
MaxCells == 2
MaxCalls == 3
MaxSeed == 1
MaxSends == 2
RngModulus == 8
MaxInputBatches == 4
MaxChunkBatches == 2
MaxChunks == 2
MaxDeadBatches == 2
MaxSampleBatches == 1
MaxLoopEpochs == 2
MaxMaxBatches == 3
MaxCompleted == 1
MaxPositions == 2
MaxHookFeatures == 2
MaxExp10 == 1
MaxRunBatches == 2

-----------------------------------------------------------------------------
(* Exact rational arithmetic *)

R(n, d) == [num |-> n, den |-> d]

RMul(a, b) == R(a.num * b.num, a.den * b.den)

RDiv(a, b) == R(a.num * b.den, a.den * b.num)

RAdd(a, b) == R(a.num * b.den + b.num * a.den, a.den * b.den)

RLe(a, b) == a.num * b.den <= b.num * a.den

RLt(a, b) == a.num * b.den < b.num * a.den

REq(a, b) == a.num * b.den = b.num * a.den

RECURSIVE IntPow(_, _)
IntPow(b, e) == IF e = 0 THEN 1 ELSE b * IntPow(b, e - 1)

RPow(a, e) == R(IntPow(a.num, e), IntPow(a.den, e))

RECURSIVE RSum(_)
RSum(s) == IF s = <<>> THEN R(0, 1) ELSE RAdd(s[1], RSum(Tail(s)))

-----------------------------------------------------------------------------
(* The synthetic dataset generator *)

\* torch.rand: a uniform draw in [0,1), as the numerator over GridDen
UniformDraws == 0 .. (GridDen - 1)

\* normal.cdf of a Gaussian sample, as the numerator over GridDen
CdfDraws == 1 .. GridDen

\* the values of feature_prob_decay the model draws from
Decays == {R(1, 2), R(1, 1)}

\* self.frac_nonzero
frac_nonzero == R(feature_num_nonzero, n_ground_truth_components)

\* self.decay: feature_prob_decay ** i for component i (1-based here)
decay == [i \in 1 .. n_ground_truth_components |-> RPow(feature_prob_decay, i - 1)]

\* __post_init__: component_probs is set in independent mode only
PostInitComponentProbs ==
    IF correlated THEN <<>>
    ELSE [i \in 1 .. n_ground_truth_components |-> RMul(decay[i], frac_nonzero)]

\* torch.where(dataset_thresh <= p, dataset_values, 0) for one entry: the
\* values it can take over the two uniform draws
WhereOutcomes(p) ==
    {IF RLe(R(t, GridDen), p) THEN v ELSE 0 : t \in UniformDraws, v \in UniformDraws}

\* the code matrices torch.where can produce for the thresholds probs
SparseCodes(probs) ==
    {codes \in [1 .. batch_size -> [1 .. n_ground_truth_components -> UniformDraws]] :
        \A r \in 1 .. batch_size : \A i \in 1 .. n_ground_truth_components :
            codes[r][i] \in WhereOutcomes(probs[i])}

\* dataset_codes.count_nonzero(dim=1) for row r
CountNonzero(codes, r) == Cardinality({i \in DOMAIN codes[r] : codes[r][i] # 0})

\* zero_sample_index
ZeroSampleIndex(codes) == {r \in DOMAIN codes : CountNonzero(codes, r) = 0}

\* dataset_codes[zero_sample_index, random_index] = 1.0
ForceComponent(codes, random_index) ==
    [r \in DOMAIN codes |->
        IF r \in DOMAIN random_index
        THEN [codes[r] EXCEPT ![random_index[r]] = GridDen]
        ELSE codes[r]]

\* component_probs = cdf * decay, then scaled by frac_nonzero / mean
ScaledComponentProbs(cdf) ==
    LET n == n_ground_truth_components
        probs == [i \in 1 .. n |-> RMul(R(cdf[i], GridDen), decay[i])]
        mean_prob == RDiv(RSum(probs), R(n, 1))
        scaler == RDiv(frac_nonzero, mean_prob)
    IN  [i \in 1 .. n |-> RMul(probs[i], scaler)]

GenIdle ==
    /\ gen_pc = "off"
    /\ correlated = FALSE
    /\ n_ground_truth_components = 0
    /\ batch_size = 0
    /\ feature_num_nonzero = 0
    /\ feature_prob_decay = R(1, 1)
    /\ component_probs = <<>>
    /\ dataset_codes = <<>>

GenInit ==
    /\ gen_pc = "constructed"
    /\ correlated \in BOOLEAN
    /\ n_ground_truth_components \in 1 .. MaxComponents
    /\ batch_size \in 1 .. MaxBatchSize
    /\ feature_num_nonzero \in 1 .. n_ground_truth_components
    /\ feature_prob_decay \in Decays
    /\ component_probs = PostInitComponentProbs
    /\ dataset_codes = <<>>

\* send in independent mode
generate_rand_dataset ==
    /\ gen_pc = "constructed"
    /\ ~correlated
    /\ \E codes \in SparseCodes(component_probs) :
          dataset_codes' = codes
    /\ gen_pc' = "sent"
    /\ UNCHANGED <<correlated, n_ground_truth_components, batch_size,
                   feature_num_nonzero, feature_prob_decay, component_probs>>
    /\ UNCHANGED <<trainVars, largerVars, mmcsVars, sweepVars, extVars>>

\* send in correlated mode
generate_correlated_dataset ==
    /\ gen_pc = "constructed"
    /\ correlated
    /\ \E cdf \in [1 .. n_ground_truth_components -> CdfDraws] :
          LET probs == ScaledComponentProbs(cdf) IN
          /\ component_probs' = probs
          /\ \E codes \in SparseCodes(probs) :
                \E random_index \in [ZeroSampleIndex(codes) -> 1 .. n_ground_truth_components] :
                    dataset_codes' = ForceComponent(codes, random_index)
    /\ gen_pc' = "sent"
    /\ UNCHANGED <<correlated, n_ground_truth_components, batch_size,
                   feature_num_nonzero, feature_prob_decay>>
    /\ UNCHANGED <<trainVars, largerVars, mmcsVars, sweepVars, extVars>>

-----------------------------------------------------------------------------
(* The training loop and the decoder's norm                                *)
(*                                                                         *)
(* A dictionary vector is a column of decoder.weight, here a vector of the *)
(* plane with integer coordinates in units of 1/UnitLen: the unit vectors  *)
(* are the twelve lattice points of norm UnitLen.  nn.functional.normalize *)
(* maps a nonzero vector to the unit lattice vector nearest in direction   *)
(* and leaves the zero vector (norm below eps) as it is.  One Adam update  *)
(* moves every coordinate by at most one unit (zero where the gradient is  *)
(* zero).                                                                  *)

\* the period of the diagnostics, in steps
LogEvery == 1000

\* the length of a unit vector, in lattice units
UnitLen == 5

Dot(u, v) == u[1] * v[1] + u[2] * v[2]

NormSq(v) == Dot(v, v)

VAdd(u, v) == <<u[1] + v[1], u[2] + v[2]>>

UnitVectors ==
    {v \in (-UnitLen .. UnitLen) \X (-UnitLen .. UnitLen) : NormSq(v) = UnitLen * UnitLen}

\* one coordinate-wise Adam update of a dictionary vector
AdamUpdates == {-1, 0, 1} \X {-1, 0, 1}

\* nn.functional.normalize for one dictionary vector
NormalizeVector(v) ==
    IF v = <<0, 0>> THEN v
    ELSE CHOOSE u \in UnitVectors : \A w \in UnitVectors : Dot(u, v) >= Dot(w, v)

\* AutoEncoder.forward: the decoder weights are replaced by the normalized ones
ForwardNormalize(dec) == [k \in DOMAIN dec |-> NormalizeVector(dec[k])]

\* optimizer.step(): the update is added to the decoder the forward pass left
OptimizerStep(dec, update) == [k \in DOMAIN dec |-> VAdd(dec[k], update[k])]

\* nn.init.orthogonal_ for a dictionary no larger than the activation
\* dimension: the dictionary vectors are orthonormal
OrthogonalInit(n) ==
    {dec \in [1 .. n -> UnitVectors] :
        \A j, k \in 1 .. n : j # k => Dot(dec[j], dec[k]) = 0}

\* (n_batches + completed_batches) % 1000 == 0, resp. (epoch + 1) % 1000 == 0
DiagnosticsDue(step) == step % LogEvery = 0

TrainIdle ==
    /\ train_pc = "off"
    /\ train_fn = "none"
    /\ decoder = <<>>
    /\ n_batches = 0
    /\ n_steps = 0
    /\ completed_batches = 0
    /\ old_dict = <<>>
    /\ new_dict = <<>>
    /\ learned_dictionary = <<>>

\* the state at the top of the training loop: the model is constructed (or
\* handed over from the previous mini-run with completed_batches steps done)
TrainInit ==
    /\ train_pc = "loop"
    /\ train_fn \in {"run_single_go", "run_with_real_data"}
    /\ \E n \in 1 .. MaxDictComponents : decoder \in OrthogonalInit(n)
    /\ n_batches = 0
    /\ n_steps \in 1 .. MaxSteps
    /\ completed_batches \in
          IF train_fn = "run_with_real_data" THEN {0, LogEvery - 1} ELSE {0}
    /\ old_dict = IF train_fn = "run_with_real_data" THEN decoder ELSE <<>>
    /\ new_dict = <<>>
    /\ learned_dictionary = <<>>

\* one iteration of the loop of run_single_go: forward, backward,
\* optimizer.step(), then the diagnostics every 1000 epochs
SingleGoStep ==
    /\ train_pc = "loop"
    /\ train_fn = "run_single_go"
    /\ n_batches < n_steps
    /\ \E update \in [DOMAIN decoder -> AdamUpdates] :
          LET stepped == OptimizerStep(ForwardNormalize(decoder), update) IN
          /\ decoder' = stepped
          /\ learned_dictionary' =
                IF DiagnosticsDue(n_batches + 1) THEN stepped ELSE learned_dictionary
    /\ n_batches' = n_batches + 1
    /\ UNCHANGED <<train_pc, train_fn, n_steps, completed_batches, old_dict, new_dict>>
    /\ UNCHANGED <<genVars, largerVars, mmcsVars, sweepVars, extVars>>

\* the end of run_single_go: the dictionary is read for the MMCS, then
\* get_n_dead_features runs the model forward, and the model is returned
SingleGoReturn ==
    /\ train_pc = "loop"
    /\ train_fn = "run_single_go"
    /\ n_batches = n_steps
    /\ learned_dictionary' = decoder
    /\ decoder' = ForwardNormalize(decoder)
    /\ train_pc' = "returned"
    /\ UNCHANGED <<train_fn, n_batches, n_steps, completed_batches, old_dict, new_dict>>
    /\ UNCHANGED <<genVars, largerVars, mmcsVars, sweepVars, extVars>>

\* one iteration of the innermost loop of run_with_real_data: forward,
\* backward, optimizer.step(), then the diagnostics every 1000 global steps
RealDataStep ==
    /\ train_pc = "loop"
    /\ train_fn = "run_with_real_data"
    /\ n_batches < n_steps
    /\ \E update \in [DOMAIN decoder -> AdamUpdates] :
          LET stepped == OptimizerStep(ForwardNormalize(decoder), update) IN
          /\ decoder' = stepped
          /\ IF DiagnosticsDue(n_batches + 1 + completed_batches)
             THEN new_dict' = stepped /\ old_dict' = stepped
             ELSE UNCHANGED <<new_dict, old_dict>>
    /\ n_batches' = n_batches + 1
    /\ UNCHANGED <<train_pc, train_fn, n_steps, completed_batches, learned_dictionary>>
    /\ UNCHANGED <<genVars, largerVars, mmcsVars, sweepVars, extVars>>

\* the end of run_with_real_data: the model is returned as the last step left it
RealDataReturn ==
    /\ train_pc = "loop"
    /\ train_fn = "run_with_real_data"
    /\ n_batches = n_steps
    /\ train_pc' = "returned"
    /\ UNCHANGED <<train_fn, decoder, n_batches, n_steps, completed_batches,
                   old_dict, new_dict, learned_dictionary>>
    /\ UNCHANGED <<genVars, largerVars, mmcsVars, sweepVars, extVars>>

-----------------------------------------------------------------------------
(* Dictionaries and cosine similarity                                      *)
(*                                                                         *)
(* A feature (a row of a dictionary) is a vector of the plane given by its *)
(* direction, a multiple of 60 degrees, and its length, a positive         *)
(* integer: the cosines of the angles between two features are rational.   *)
(* A dictionary is a sequence of features.                                 *)

Directions == 0 .. 5

F(d, l) == [dir |-> d, len |-> l]

\* the cosine of k * 60 degrees
CosineOfAngle(k) ==
    CASE k = 0 -> R(1, 1)
      [] k \in {1, 5} -> R(1, 2)
      [] k \in {2, 4} -> R(-1, 2)
      [] k = 3 -> R(-1, 1)

\* the inner product of two features
Inner(u, v) == RMul(R(u.len * v.len, 1), CosineOfAngle((u.dir - v.dir) % 6))

\* the inner product, not divided by the norms
cosine_similarity_unnormalized(u, v) == Inner(u, v)

\* torch.nn.functional.cosine_similarity of two nonzero vectors: the inner
\* product over the product of the norms
cosine_similarity(u, v) == RDiv(Inner(u, v), R(u.len * v.len, 1))

Min(a, b) == IF a <= b THEN a ELSE b

-----------------------------------------------------------------------------
(* run_mmcs_with_larger *)

\* the dictionaries the model draws the grid from
DictPool ==
    { <<F(0, 1), F(1, 2)>>,
      <<F(0, 2), F(3, 1)>>,
      <<F(1, 1), F(2, 1), F(0, 3)>>,
      <<F(3, 1), F(0, 1), F(4, 2)>> }

\* the threshold arguments the model draws from: 0.4, 0.9 and 1.0
Thresholds == {R(2, 5), R(9, 10), R(1, 1)}

\* the grids a sweep hands over: every row has the dictionary sizes of the
\* sweep, which do not decrease along a row
LearnedDictGrids ==
    UNION {
        {g \in [1 .. n -> [1 .. m -> DictPool]] :
            /\ \A i \in 1 .. n : \A k \in 1 .. m : Len(g[i][k]) = Len(g[1][k])
            /\ \A k \in 1 .. (m - 1) : Len(g[1][k]) <= Len(g[1][k + 1])}
        : n \in 1 .. MaxL1, m \in 1 .. MaxSizes }

n_l1_coefs == Len(learned_dicts)

n_dict_sizes == Len(learned_dicts[1])

\* itertools.product(range(n_l1_coefs), range(n_dict_sizes)) at position
\* loop_ndx, as 0-based indices like the source's
l1_ndx == loop_ndx \div n_dict_sizes

dict_size_ndx == loop_ndx % n_dict_sizes

\* the dictionary is compared with itself
LargerNdxSame(k) == k

\* the index of the dictionary the smaller one is compared with
LargerNdx(k) == k + 1

\* cos_sims[idx] = cosine_similarity(vector, larger_dict_clone)
CosSims(smaller, larger) ==
    [r \in 1 .. Len(smaller) |->
        [c \in 1 .. Len(larger) |-> cosine_similarity(smaller[r], larger[c])]]

\* the similarities are handed to the assignment as they are
ToCostUnconverted(cos_sims) == cos_sims

\* cos_sims = 1 - cos_sims
ToCost(cos_sims) ==
    [r \in DOMAIN cos_sims |->
        [c \in DOMAIN cos_sims[r] |-> RAdd(R(1, 1), RMul(R(-1, 1), cos_sims[r][c]))]]

\* the one-to-one assignments of min(rows, columns) rows to distinct columns,
\* as (row_ind, col_ind) with row_ind increasing
Assignments(nrows, ncols) ==
    LET k == Min(nrows, ncols) IN
    {rows \in [1 .. k -> 1 .. nrows] :
        \A p, q \in 1 .. k : p < q => rows[p] < rows[q]}
    \X
    {cols \in [1 .. k -> 1 .. ncols] :
        \A p, q \in 1 .. k : p # q => cols[p] # cols[q]}

\* cost[row_ind, col_ind]
Picked(mat, rows, cols) == [p \in DOMAIN rows |-> mat[rows[p]][cols[p]]]

\* every row takes the column of least cost, whether or not another row took it
linear_sum_assignment_per_row(cost) ==
    {a \in [1 .. Len(cost) -> 1 .. Len(cost)] \X [1 .. Len(cost) -> 1 .. Len(cost[1])] :
        /\ \A p \in 1 .. Len(cost) : a[1][p] = p
        /\ \A p \in 1 .. Len(cost) : \A c \in 1 .. Len(cost[1]) :
              RLe(cost[p][a[2][p]], cost[p][c])}

\* scipy.optimize.linear_sum_assignment: the assignments of least total cost
linear_sum_assignment(cost) ==
    LET all == Assignments(Len(cost), Len(cost[1])) IN
    {a \in all :
        \A b \in all : RLe(RSum(Picked(cost, a[1], a[2])), RSum(Picked(cost, b[1], b[2])))}

\* max_cosine_similarities = 1 - cos_sims[row_ind, col_ind]
FromCost(costs) == [p \in DOMAIN costs |-> RAdd(R(1, 1), RMul(R(-1, 1), costs[p]))]

\* max_cosine_similarities.mean()
Mean(sims) == RDiv(RSum(sims), R(Len(sims), 1))

\* the threshold the loop body compares with: threshold = 0.9
BodyThreshold(given) == R(9, 10)

\* (max_cosine_similarities > threshold).sum() / smaller_dict_features * 100
PercentAbove(sims, thr, smaller_dict_features) ==
    RMul(R(Cardinality({p \in DOMAIN sims : RLt(thr, sims[p])}), smaller_dict_features),
         R(100, 1))

\* np.zeros((n, m))
Zeros(n, m) == [i \in 1 .. n |-> [k \in 1 .. m |-> R(0, 1)]]

\* np.empty((n, m), dtype=object)
Empty(n, m) == [i \in 1 .. n |-> [k \in 1 .. m |-> <<>>]]

LargerIdle ==
    /\ larger_pc = "off"
    /\ learned_dicts = <<>>
    /\ cfg_threshold = R(0, 1)
    /\ threshold = R(0, 1)
    /\ loop_ndx = 0
    /\ av_mmcs_with_larger_dicts = <<>>
    /\ feats_above_threshold = <<>>
    /\ full_max_cosine_sim_for_histograms = <<>>
    /\ smaller_dict = <<>>
    /\ larger_dict_clone = <<>>
    /\ row_ind = <<>>
    /\ col_ind = <<>>
    /\ max_cosine_similarities = <<>>

\* the call run_mmcs_with_larger(learned_dicts, threshold=cfg.threshold), up
\* to the loop
LargerInit ==
    /\ larger_pc = "loop"
    /\ learned_dicts \in LearnedDictGrids
    /\ cfg_threshold \in Thresholds
    /\ threshold = cfg_threshold
    /\ loop_ndx = 0
    /\ av_mmcs_with_larger_dicts = Zeros(n_l1_coefs, n_dict_sizes)
    /\ feats_above_threshold = Zeros(n_l1_coefs, n_dict_sizes)
    /\ full_max_cosine_sim_for_histograms = Empty(n_l1_coefs, n_dict_sizes - 1)
    /\ smaller_dict = <<>>
    /\ larger_dict_clone = <<>>
    /\ row_ind = <<>>
    /\ col_ind = <<>>
    /\ max_cosine_similarities = <<>>

\* an iteration at the last dictionary size: continue
LargerSkipLast ==
    /\ larger_pc = "loop"
    /\ loop_ndx < n_l1_coefs * n_dict_sizes
    /\ dict_size_ndx = n_dict_sizes - 1
    /\ loop_ndx' = loop_ndx + 1
    /\ UNCHANGED <<larger_pc, learned_dicts, cfg_threshold, threshold,
                   av_mmcs_with_larger_dicts, feats_above_threshold,
                   full_max_cosine_sim_for_histograms, smaller_dict,
                   larger_dict_clone, row_ind, col_ind, max_cosine_similarities>>
    /\ UNCHANGED <<genVars, trainVars, mmcsVars, sweepVars, extVars>>

\* an iteration below the last dictionary size: the body of the loop
LargerCompare ==
    /\ larger_pc = "loop"
    /\ loop_ndx < n_l1_coefs * n_dict_sizes
    /\ dict_size_ndx # n_dict_sizes - 1
    /\ LET smaller == learned_dicts[l1_ndx + 1][dict_size_ndx + 1]
           larger == learned_dicts[l1_ndx + 1][LargerNdx(dict_size_ndx) + 1]
           cost == ToCost(CosSims(smaller, larger))
           thr == BodyThreshold(threshold)
       IN  \E a \in linear_sum_assignment(cost) :
              LET sims == FromCost(Picked(cost, a[1], a[2])) IN
              /\ smaller_dict' = smaller
              /\ larger_dict_clone' = larger
              /\ row_ind' = a[1]
              /\ col_ind' = a[2]
              /\ max_cosine_similarities' = sims
              /\ threshold' = thr
              /\ av_mmcs_with_larger_dicts' =
                    [av_mmcs_with_larger_dicts EXCEPT
                        ![l1_ndx + 1][dict_size_ndx + 1] = Mean(sims)]
              /\ feats_above_threshold' =
                    [feats_above_threshold EXCEPT
                        ![l1_ndx + 1][dict_size_ndx + 1] =
                            PercentAbove(sims, thr, Len(smaller))]
              /\ full_max_cosine_sim_for_histograms' =
                    [full_max_cosine_sim_for_histograms EXCEPT
                        ![l1_ndx + 1][dict_size_ndx + 1] = sims]
    /\ loop_ndx' = loop_ndx + 1
    /\ UNCHANGED <<larger_pc, learned_dicts, cfg_threshold>>
    /\ UNCHANGED <<genVars, trainVars, mmcsVars, sweepVars, extVars>>

\* the loop is over: the three arrays are returned
LargerReturn ==
    /\ larger_pc = "loop"
    /\ loop_ndx = n_l1_coefs * n_dict_sizes
    /\ larger_pc' = "returned"
    /\ UNCHANGED <<learned_dicts, cfg_threshold, threshold, loop_ndx,
                   av_mmcs_with_larger_dicts, feats_above_threshold,
                   full_max_cosine_sim_for_histograms, smaller_dict,
                   larger_dict_clone, row_ind, col_ind, max_cosine_similarities>>
    /\ UNCHANGED <<genVars, trainVars, mmcsVars, sweepVars, extVars>>

-----------------------------------------------------------------------------
(* mean_max_cosine_similarity *)

\* the features the rows of the learned dictionary are drawn from
RowFeatures == {F(0, 1), F(1, 2), F(3, 1), F(2, 3)}

\* the learned dictionaries the model draws from
LearnedDictionaries == UNION {[1 .. n -> RowFeatures] : n \in 1 .. MaxLearnedRows}

\* normalize = lambda v: (v.T / np.linalg.norm(v, axis=1)).T, for one row
NormalizeRow(u) == F(u.dir, u.len \div u.len)

\* cosine_sim: vecs1_norm @ vecs2_norm.T
cosine_sim(vecs1, vecs2) ==
    [g \in DOMAIN vecs1 |->
        [l \in DOMAIN vecs2 |-> Inner(NormalizeRow(vecs1[g]), NormalizeRow(vecs2[l]))]]

\* the largest entry of a nonempty row
RECURSIVE RMax(_)
RMax(s) ==
    IF Len(s) = 1 THEN s[1]
    ELSE LET m == RMax(Tail(s)) IN IF RLe(m, s[1]) THEN s[1] ELSE m

\* the similarity to the learned row of the same index
MaxAtSameIndex(cos_sim) ==
    [g \in DOMAIN cos_sim |-> cos_sim[g][Min(g, Len(cos_sim[g]))]]

\* cos_sim.max(axis=1): for each ground-truth feature, the largest similarity
\* to a learned row
MaxAlongLearned(cos_sim) == [g \in DOMAIN cos_sim |-> RMax(cos_sim[g])]

\* mean_max_cosine_similarity(ground_truth_features, learned_dictionary)
mean_max_cosine_similarity(gt, learned) == Mean(MaxAlongLearned(cosine_sim(gt, learned)))

\* the permutations of 1..n
RowPermutations(n) == {f \in [1 .. n -> 1 .. n] : \A p, q \in 1 .. n : p # q => f[p] # f[q]}

MmcsIdle ==
    /\ mmcs_pc = "off"
    /\ ground_truth_features = <<>>
    /\ learned_rows = <<>>
    /\ mmcs = <<>>
    /\ first_rows = <<>>
    /\ first_mmcs = <<>>

MmcsInit ==
    /\ mmcs_pc = "fresh"
    /\ ground_truth_features \in DictPool
    /\ learned_rows \in LearnedDictionaries
    /\ mmcs = <<>>
    /\ first_rows = <<>>
    /\ first_mmcs = <<>>

\* the dictionary is scored as it was learned
ScoreLearned ==
    /\ mmcs_pc = "fresh"
    /\ mmcs' = mean_max_cosine_similarity(ground_truth_features, learned_rows)
    /\ first_mmcs' = mmcs'
    /\ first_rows' = learned_rows
    /\ mmcs_pc' = "scored"
    /\ UNCHANGED <<ground_truth_features, learned_rows>>
    /\ UNCHANGED <<genVars, trainVars, largerVars, sweepVars, extVars>>

\* the caller permutes the rows of the learned dictionary
PermuteRows ==
    /\ mmcs_pc = "scored"
    /\ \E perm \in RowPermutations(Len(learned_rows)) :
          learned_rows' = [p \in DOMAIN learned_rows |-> learned_rows[perm[p]]]
    /\ mmcs_pc' = "permuted"
    /\ UNCHANGED <<ground_truth_features, mmcs, first_rows, first_mmcs>>
    /\ UNCHANGED <<genVars, trainVars, largerVars, sweepVars, extVars>>

\* the permuted dictionary is scored
ScorePermuted ==
    /\ mmcs_pc = "permuted"
    /\ mmcs' = mean_max_cosine_similarity(ground_truth_features, learned_rows)
    /\ mmcs_pc' = "rescored"
    /\ UNCHANGED <<ground_truth_features, learned_rows, first_rows, first_mmcs>>
    /\ UNCHANGED <<genVars, trainVars, largerVars, sweepVars, extVars>>

-----------------------------------------------------------------------------
(* The sweep over the grid of L1 coefficients and dictionary sizes *)

\* base ** exp for an integer base and an integer exponent of either sign
Power(base, exp) ==
    IF exp >= 0 THEN R(IntPow(base, exp), 1) ELSE R(1, IntPow(base, -exp))

\* int(x) for a rational x >= 0
IntOf(x) == x.num \div x.den

\* range(low, high) as a sequence
Range(low, high) == [p \in 1 .. (high - low) |-> low + p - 1]

\* [cfg.l1_exp_base**exp for exp in range(cfg.l1_exp_low, cfg.l1_exp_high)]
l1_range ==
    LET exps == Range(l1_exp_low, l1_exp_high) IN
    [p \in DOMAIN exps |-> Power(l1_exp_base, exps[p])]

\* [cfg.dict_ratio_exp_base**exp for exp in range(low, high)]
dict_ratios ==
    LET exps == Range(dict_ratio_exp_low, dict_ratio_exp_high) IN
    [p \in DOMAIN exps |-> Power(dict_ratio_exp_base, exps[p])]

\* run_real_data_model: [int(cfg.activation_dim * ratio) for ratio in dict_ratios]
dict_sizes ==
    [p \in DOMAIN dict_ratios |-> IntOf(RMul(R(cfg_activation_dim, 1), dict_ratios[p]))]

\* run_toy_model: int(cfg.n_ground_truth_components * cfg.learned_dict_ratio)
ToyComponents(learned_dict_ratio) ==
    IntOf(RMul(R(cfg_n_ground_truth_components, 1), learned_dict_ratio))

\* the index pairs of zip(range(n), range(m))
ProductZipped(n, m) == [p \in 1 .. Min(n, m) |-> <<p - 1, p - 1>>]

\* list(itertools.product(range(n), range(m))): 0-based index pairs, the
\* second index running fastest
Product(n, m) == [p \in 1 .. (n * m) |-> <<(p - 1) \div m, (p - 1) % m>>]

\* the cells of one pass over the grid
GridCells == Product(Len(l1_range), Len(dict_ratios))

\* an entry of the grid of models that holds no model yet
None == [origin |-> "none", id |-> <<>>, params |-> <<>>, l1_coef |-> R(0, 1), dict_size |-> 0,
         activation_size |-> 0]

\* AutoEncoder(...): a freshly initialised model, made for cell (i, k); params
\* is the list of the training passes its parameters have been through
AutoEncoder(i, k) ==
    [origin |-> "fresh", id |-> <<i, k>>, params |-> <<0>>, l1_coef |-> l1_range[i + 1],
     dict_size |-> IF run_toy THEN ToyComponents(dict_ratios[k + 1]) ELSE dict_sizes[k + 1],
     activation_size |-> cfg_activation_dim]

\* a fresh model whatever the grid holds
FreshCellModel(models, i, k) == AutoEncoder(i, k)

\* auto_encoder = auto_encoders[l1_ndx][dict_size_ndx]
CellModel(models, i, k) == models[i + 1][k + 1]

\* the training of a model changes its parameters in place
TrainedModel(model, pass) == [model EXCEPT !.params = Append(@, pass + 1)]

\* list.index(value): the 0-based position of the first equal element
Index(seq, value) ==
    (CHOOSE p \in DOMAIN seq :
        /\ REq(seq[p], value)
        /\ \A q \in 1 .. (p - 1) : ~REq(seq[q], value)) - 1

\* deepcopy of the grid of models
DeepCopy(models) == models

\* the files run_toy_model writes after its loop
ToyFiles ==
    {"mmcs_matrix.png", "dead_features_matrix.png", "recon_loss_matrix.png",
     "auto_encoders.pkl", "config.pkl", "data_generator.pkl", "mmcs_matrix.pkl",
     "dead_features.pkl", "recon_loss.pkl"}

\* the files run_toy_model writes for the comparison with larger dictionaries
ToyCompareFiles ==
    {"larger_dict_compare.pkl", "larger_dict_threshold.pkl",
     "max_cosine_similarities.pkl", "av_mmcs_with_larger_dicts.png",
     "percentage_above_threshold_mmcs_with_larger_dicts.png",
     "histogram_max_cosine_sim.png"}

\* the plots run_real_data_model writes at the end of every mini-run
MiniRunFiles == {"dead_features_matrix.png", "recon_loss_matrix.png", "l1_loss_matrix.png"}

\* the files of save_after_mini
MiniRunSaveFiles == {"autoencoders.pth", "av_activations.pkl"}

\* the files run_real_data_model writes after its last mini-run
RealFiles ==
    {"dead_features_matrix.png", "recon_loss_matrix.png", "auto_encoders.pkl",
     "config.pkl", "dead_features.pkl", "recon_loss.pkl"}

\* the comparison files run_real_data_model writes after its last mini-run
RealCompareFiles == {"larger_dict_compare.pkl", "larger_dict_threshold.pkl"}

\* the comparison plots, written for more than one dictionary size
RealComparePlots ==
    {"av_mmcs_with_larger_dicts.png",
     "percentage_above_threshold_mmcs_with_larger_dicts.png",
     "histogram_max_cosine_sim.png"}

SweepIdle ==
    /\ sweep_pc = "off"
    /\ run_toy = FALSE
    /\ cfg_activation_dim = 0
    /\ cfg_n_ground_truth_components = 0
    /\ l1_exp_low = 0
    /\ l1_exp_high = 0
    /\ l1_exp_base = 0
    /\ dict_ratio_exp_low = 0
    /\ dict_ratio_exp_high = 0
    /\ dict_ratio_exp_base = 0
    /\ mini_runs = 0
    /\ mini_run = 0
    /\ cell_ndx = 0
    /\ trained = <<>>
    /\ save_after_mini = FALSE
    /\ auto_encoders = <<>>
    /\ saved_models = <<>>
    /\ compare_calls = 0
    /\ written = {}
    /\ printed = {}
    /\ failed_cell = <<>>
    /\ loaded_autoencoders = <<>>
    /\ load_ndx = 0

\* main: the configuration is parsed and the driver entered, up to its loop
SweepInit ==
    /\ sweep_pc = "cells"
    /\ run_toy \in BOOLEAN
    /\ cfg_activation_dim \in {2, 3}
    /\ cfg_n_ground_truth_components \in {2, 3}
    /\ l1_exp_low \in {-1, 0}
    /\ \E n \in 1 .. MaxL1 : l1_exp_high = l1_exp_low + n
    /\ l1_exp_base \in {2, 10}
    /\ dict_ratio_exp_low \in {-1, 0, 1}
    /\ \E m \in 1 .. MaxSizes : dict_ratio_exp_high = dict_ratio_exp_low + m
    /\ dict_ratio_exp_base \in {1, 2}
    /\ mini_runs \in IF run_toy THEN {1} ELSE 1 .. MaxMiniRuns
    /\ mini_run = 0
    /\ cell_ndx = 0
    /\ trained = <<>>
    /\ save_after_mini \in IF run_toy THEN {FALSE} ELSE BOOLEAN
    /\ auto_encoders =
          [i \in 1 .. Len(l1_range) |->
              [k \in 1 .. Len(dict_ratios) |->
                  IF run_toy THEN None ELSE AutoEncoder(i - 1, k - 1)]]
    /\ saved_models = <<>>
    /\ compare_calls = 0
    /\ written = {}
    /\ printed = {<<"Range of l1 values being used">>,
                  <<"Range of dict_sizes being used">>}
    /\ failed_cell = <<>>
    /\ loaded_autoencoders = <<>>
    /\ load_ndx = 0

\* run_toy_model: one iteration of the loop over the product of the values
ToyTrainCell ==
    /\ sweep_pc = "cells"
    /\ run_toy
    /\ cell_ndx < Len(GridCells)
    /\ LET cell == GridCells[cell_ndx + 1]
           l1_alpha == l1_range[cell[1] + 1]
           learned_dict_ratio == dict_ratios[cell[2] + 1]
           auto_encoder == TrainedModel(AutoEncoder(cell[1], cell[2]), 0)
           row == Index(l1_range, l1_alpha) + 1
           col == Index(dict_ratios, learned_dict_ratio) + 1
       IN  /\ trained' = Append(trained,
                [mini_run |-> 0, l1_ndx |-> cell[1], dict_size_ndx |-> cell[2],
                 l1_alpha |-> l1_alpha,
                 n_components_dictionary |-> ToyComponents(learned_dict_ratio),
                 model_id |-> auto_encoder.id,
                 params_in |-> AutoEncoder(cell[1], cell[2]).params,
                 params_out |-> auto_encoder.params])
           /\ auto_encoders' = [auto_encoders EXCEPT ![row][col] = auto_encoder]
    /\ cell_ndx' = cell_ndx + 1
    /\ UNCHANGED <<sweep_pc, run_toy, cfg_activation_dim, cfg_n_ground_truth_components,
                   l1_exp_low, l1_exp_high, l1_exp_base, dict_ratio_exp_low,
                   dict_ratio_exp_high, dict_ratio_exp_base, mini_runs, mini_run,
                   save_after_mini, saved_models, compare_calls, written, printed,
                   failed_cell, loaded_autoencoders, load_ndx>>
    /\ UNCHANGED <<genVars, trainVars, largerVars, mmcsVars, extVars>>

\* run_toy_model: run_single_go raises in a cell (out of memory); nothing
\* catches the exception, which ends run_toy_model
ToyTrainCellFails ==
    /\ sweep_pc = "cells"
    /\ run_toy
    /\ cell_ndx < Len(GridCells)
    /\ failed_cell' = GridCells[cell_ndx + 1]
    /\ sweep_pc' = "aborted"
    /\ UNCHANGED <<run_toy, cfg_activation_dim, cfg_n_ground_truth_components,
                   l1_exp_low, l1_exp_high, l1_exp_base, dict_ratio_exp_low,
                   dict_ratio_exp_high, dict_ratio_exp_base, mini_runs, mini_run,
                   cell_ndx, trained, save_after_mini, auto_encoders, saved_models,
                   compare_calls, written, printed, loaded_autoencoders, load_ndx>>
    /\ UNCHANGED <<genVars, trainVars, largerVars, mmcsVars, extVars>>

\* run_toy_model: the loop is over; the results are written and, for more
\* than one ratio, the dictionaries are compared with the larger ones
ToyFinish ==
    /\ sweep_pc = "cells"
    /\ run_toy
    /\ cell_ndx = Len(GridCells)
    /\ IF Len(dict_ratios) > 1
       THEN IF \E i \in DOMAIN auto_encoders : \E k \in DOMAIN auto_encoders[i] :
                  auto_encoders[i][k] = None
            THEN \* auto_e.decoder of an entry that is still None
                 /\ sweep_pc' = "aborted"
                 /\ written' = written \cup ToyFiles
                 /\ compare_calls' = compare_calls
            ELSE /\ sweep_pc' = "done"
                 /\ written' = written \cup ToyFiles \cup ToyCompareFiles
                 /\ compare_calls' = compare_calls + 1
       ELSE /\ sweep_pc' = "done"
            /\ written' = written \cup ToyFiles
            /\ compare_calls' = compare_calls
    /\ UNCHANGED <<run_toy, cfg_activation_dim, cfg_n_ground_truth_components,
                   l1_exp_low, l1_exp_high, l1_exp_base, dict_ratio_exp_low,
                   dict_ratio_exp_high, dict_ratio_exp_base, mini_runs, mini_run,
                   cell_ndx, trained, save_after_mini, auto_encoders, saved_models,
                   printed, failed_cell, loaded_autoencoders, load_ndx>>
    /\ UNCHANGED <<genVars, trainVars, largerVars, mmcsVars, extVars>>

\* run_real_data_model: one iteration of the loop over the cells of a mini-run
RealTrainCell ==
    /\ sweep_pc = "cells"
    /\ ~run_toy
    /\ cell_ndx < Len(GridCells)
    /\ LET cell == GridCells[cell_ndx + 1]
           l1_loss == l1_range[cell[1] + 1]
           dict_size == dict_sizes[cell[2] + 1]
           auto_encoder == CellModel(auto_encoders, cell[1], cell[2])
           after == TrainedModel(auto_encoder, mini_run)
       IN  /\ trained' = Append(trained,
                [mini_run |-> mini_run, l1_ndx |-> cell[1], dict_size_ndx |-> cell[2],
                 l1_alpha |-> l1_loss,
                 n_components_dictionary |-> dict_size,
                 model_id |-> auto_encoder.id,
                 params_in |-> auto_encoder.params,
                 params_out |-> after.params])
           /\ auto_encoders' =
                [auto_encoders EXCEPT ![cell[1] + 1][cell[2] + 1] =
                    IF auto_encoder.id = @.id THEN after ELSE @]
    /\ cell_ndx' = cell_ndx + 1
    /\ UNCHANGED <<sweep_pc, run_toy, cfg_activation_dim, cfg_n_ground_truth_components,
                   l1_exp_low, l1_exp_high, l1_exp_base, dict_ratio_exp_low,
                   dict_ratio_exp_high, dict_ratio_exp_base, mini_runs, mini_run,
                   save_after_mini, saved_models, compare_calls, written, printed,
                   failed_cell, loaded_autoencoders, load_ndx>>
    /\ UNCHANGED <<genVars, trainVars, largerVars, mmcsVars, extVars>>

\* run_real_data_model: run_with_real_data raises in a cell (out of memory);
\* nothing catches the exception, which ends run_real_data_model
RealTrainCellFails ==
    /\ sweep_pc = "cells"
    /\ ~run_toy
    /\ cell_ndx < Len(GridCells)
    /\ failed_cell' = GridCells[cell_ndx + 1]
    /\ sweep_pc' = "aborted"
    /\ UNCHANGED <<run_toy, cfg_activation_dim, cfg_n_ground_truth_components,
                   l1_exp_low, l1_exp_high, l1_exp_base, dict_ratio_exp_low,
                   dict_ratio_exp_high, dict_ratio_exp_base, mini_runs, mini_run,
                   cell_ndx, trained, save_after_mini, auto_encoders, saved_models,
                   compare_calls, written, printed, loaded_autoencoders, load_ndx>>
    /\ UNCHANGED <<genVars, trainVars, largerVars, mmcsVars, extVars>>

\* run_real_data_model: the cells of a mini-run are done: the dictionaries
\* are compared with the larger ones, the plots are written and the models
\* saved if asked; then the next mini-run starts, or after the last one the
\* results are written and the dictionaries compared once more
RealEndMiniRun ==
    /\ sweep_pc = "cells"
    /\ ~run_toy
    /\ cell_ndx = Len(GridCells)
    /\ mini_run' = mini_run + 1
    /\ saved_models' =
          IF save_after_mini THEN Append(saved_models, DeepCopy(auto_encoders))
          ELSE saved_models
    /\ LET per_run == MiniRunFiles \cup (IF save_after_mini THEN MiniRunSaveFiles ELSE {})
       IN  IF mini_run + 1 < mini_runs
           THEN /\ cell_ndx' = 0
                /\ sweep_pc' = "cells"
                /\ compare_calls' = compare_calls + 1
                /\ written' = written \cup per_run
           ELSE /\ cell_ndx' = cell_ndx
                /\ sweep_pc' = "done"
                /\ compare_calls' = compare_calls + 2
                /\ written' = written \cup per_run \cup RealFiles \cup RealCompareFiles
                                \cup (IF Len(dict_sizes) > 1 THEN RealComparePlots ELSE {})
    /\ UNCHANGED <<run_toy, cfg_activation_dim, cfg_n_ground_truth_components,
                   l1_exp_low, l1_exp_high, l1_exp_base, dict_ratio_exp_low,
                   dict_ratio_exp_high, dict_ratio_exp_base, mini_runs, trained,
                   save_after_mini, auto_encoders, printed, failed_cell,
                   loaded_autoencoders, load_ndx>>
    /\ UNCHANGED <<genVars, trainVars, largerVars, mmcsVars, extVars>>

-----------------------------------------------------------------------------
(* run_real_data_model with load_autoencoders: the saved models are loaded
   into the grid before the first mini-run *)

\* value in seq, for L1 coefficients
InRange(seq, value) == \E p \in DOMAIN seq : REq(seq[p], value)

\* seq.index(value) for dictionary sizes
IndexOf(seq, value) ==
    (CHOOSE p \in DOMAIN seq : seq[p] = value /\ \A q \in 1 .. (p - 1) : seq[q] # value) - 1

\* a model saved by an earlier run: trained once, with the L1 coefficient,
\* dictionary size and activation size it was made with
Saved(n, l1_coef, dict_size, activation_size) ==
    [origin |-> "saved", id |-> <<n>>, params |-> <<0, 1>>, l1_coef |-> l1_coef,
     dict_size |-> dict_size, activation_size |-> activation_size]

\* an L1 coefficient outside the range of the models
OffGridL1 == R(3, 1)

\* a dictionary size outside the range of the models
OffGridSize == 7

\* the contents of the file load_autoencoders names, in the order the two
\* loops go over them
SavedLists ==
    LET n == Len(l1_range)
        m == Len(dict_sizes)
        first == Saved(1, l1_range[1], dict_sizes[1], cfg_activation_dim)
        last == Saved(2, l1_range[n], dict_sizes[m], cfg_activation_dim)
        again == Saved(3, l1_range[n], dict_sizes[m], cfg_activation_dim)
        off_l1 == Saved(4, OffGridL1, dict_sizes[1], cfg_activation_dim)
        off_size == Saved(5, l1_range[n], OffGridSize, cfg_activation_dim)
        other_dim == Saved(6, l1_range[1], dict_sizes[m], cfg_activation_dim + 1)
    IN  {<<first>>, <<last, off_l1>>, <<off_size, first>>, <<other_dim, last>>,
         <<last, again>>, <<off_l1, other_dim, off_size>>}

\* every loaded model goes to the first cell
LoadTargetFirstCell(ae) == <<0, 0>>

\* auto_encoders[l1_range.index(ae.l1_coef)][dict_sizes.index(size)]
LoadTarget(ae) == <<Index(l1_range, ae.l1_coef), IndexOf(dict_sizes, ae.dict_size)>>

\* run_real_data_model up to the loading of the saved models
LoadInit ==
    /\ sweep_pc = "load"
    /\ run_toy = FALSE
    /\ cfg_activation_dim \in {2, 3}
    /\ cfg_n_ground_truth_components = 2
    /\ l1_exp_low \in {-1, 0}
    /\ \E n \in 1 .. MaxL1 : l1_exp_high = l1_exp_low + n
    /\ l1_exp_base = 10
    /\ dict_ratio_exp_low \in {-1, 0}
    /\ \E m \in 1 .. MaxSizes : dict_ratio_exp_high = dict_ratio_exp_low + m
    /\ dict_ratio_exp_base \in {1, 2}
    /\ mini_runs = 1
    /\ mini_run = 0
    /\ cell_ndx = 0
    /\ trained = <<>>
    /\ save_after_mini = FALSE
    /\ auto_encoders =
          [i \in 1 .. Len(l1_range) |->
              [k \in 1 .. Len(dict_ratios) |-> AutoEncoder(i - 1, k - 1)]]
    /\ saved_models = <<>>
    /\ compare_calls = 0
    /\ written = {}
    /\ printed = {<<"Range of l1 values being used">>,
                  <<"Range of dict_sizes being used">>}
    /\ failed_cell = <<>>
    /\ loaded_autoencoders \in SavedLists
    /\ load_ndx = 0

\* one iteration of the loops over the saved models
LoadAutoencoder ==
    /\ sweep_pc = "load"
    /\ load_ndx < Len(loaded_autoencoders)
    /\ LET ae == loaded_autoencoders[load_ndx + 1] IN
       IF ae.activation_size # cfg_activation_dim
       THEN /\ printed' = printed \cup
                  {<<"Mismatch of activation size", cfg_activation_dim, ae.activation_size>>}
            /\ UNCHANGED auto_encoders
       ELSE IF InRange(l1_range, ae.l1_coef) /\ (\E p \in DOMAIN dict_sizes : dict_sizes[p] = ae.dict_size)
       THEN /\ printed' = printed \cup
                  {<<"Loading autoencoder", ae.l1_coef, ae.dict_size>>}
            /\ auto_encoders' =
                  [auto_encoders EXCEPT ![LoadTarget(ae)[1] + 1][LoadTarget(ae)[2] + 1] = ae]
       ELSE /\ printed' = printed \cup
                  {<<"Unable to match autoencoder", ae.l1_coef, ae.dict_size>>}
            /\ UNCHANGED auto_encoders
    /\ load_ndx' = load_ndx + 1
    /\ UNCHANGED <<sweep_pc, run_toy, cfg_activation_dim, cfg_n_ground_truth_components,
                   l1_exp_low, l1_exp_high, l1_exp_base, dict_ratio_exp_low,
                   dict_ratio_exp_high, dict_ratio_exp_base, mini_runs, mini_run,
                   cell_ndx, trained, save_after_mini, saved_models, compare_calls,
                   written, failed_cell, loaded_autoencoders>>
    /\ UNCHANGED <<genVars, trainVars, largerVars, mmcsVars, extVars>>

\* the saved models have all been looked at: the mini-runs start
LoadDone ==
    /\ sweep_pc = "load"
    /\ load_ndx = Len(loaded_autoencoders)
    /\ sweep_pc' = "cells"
    /\ UNCHANGED <<run_toy, cfg_activation_dim, cfg_n_ground_truth_components,
                   l1_exp_low, l1_exp_high, l1_exp_base, dict_ratio_exp_low,
                   dict_ratio_exp_high, dict_ratio_exp_base, mini_runs, mini_run,
                   cell_ndx, trained, save_after_mini, auto_encoders, saved_models,
                   compare_calls, written, printed, failed_cell,
                   loaded_autoencoders, load_ndx>>
    /\ UNCHANGED <<genVars, trainVars, largerVars, mmcsVars, extVars>>

-----------------------------------------------------------------------------
(* interpret_across_baselines with n_gpus > 1: the jobs are put on a
   multiprocessing.Queue and a worker process per GPU takes them off.
   Queue.put appends the job to a buffer that a feeder thread writes to the
   pipe; Queue.empty and Queue.get look at the pipe. *)

Workers == 0 .. (n_gpus - 1)

Jobs == 1 .. n_jobs

QueueIdle ==
    /\ queue_pc = "off"
    /\ n_gpus = 0
    /\ n_jobs = 0
    /\ n_put = 0
    /\ queue_buffer = <<>>
    /\ queue_pipe = <<>>
    /\ worker_pc = <<>>
    /\ worker_job = <<>>
    /\ run_count = <<>>

\* interpret_across_baselines up to the loop over the baselines
QueueInit ==
    /\ queue_pc = "putting"
    /\ n_gpus \in 2 .. MaxWorkers
    /\ n_jobs \in 1 .. MaxJobs
    /\ n_put = 0
    /\ queue_buffer = <<>>
    /\ queue_pipe = <<>>
    /\ worker_pc = [w \in Workers |-> "created"]
    /\ worker_job = [w \in Workers |-> 0]
    /\ run_count = [j \in Jobs |-> 0]

\* job_queue.put((learned_dict, cfg)): the job is appended to the buffer
QueuePut ==
    /\ queue_pc = "putting"
    /\ n_put < n_jobs
    /\ n_put' = n_put + 1
    /\ queue_buffer' = Append(queue_buffer, n_put + 1)
    /\ UNCHANGED <<queue_pc, n_gpus, n_jobs, queue_pipe, worker_pc, worker_job, run_count>>
    /\ UNCHANGED queueOthers

\* the feeder thread of the queue writes the oldest buffered job to the pipe
QueueFeed ==
    /\ queue_buffer # <<>>
    /\ queue_pipe' = Append(queue_pipe, Head(queue_buffer))
    /\ queue_buffer' = Tail(queue_buffer)
    /\ UNCHANGED <<queue_pc, n_gpus, n_jobs, n_put, worker_pc, worker_job, run_count>>
    /\ UNCHANGED queueOthers

\* for p in processes: p.start(), after the last job was put
StartWorker(w) ==
    /\ queue_pc = "putting"
    /\ n_put = n_jobs
    /\ worker_pc[w] = "created"
    /\ \A v \in Workers : v < w => worker_pc[v] # "created"
    /\ worker_pc' = [worker_pc EXCEPT ![w] = "check"]
    /\ queue_pc' = IF w = n_gpus - 1 THEN "joining" ELSE queue_pc
    /\ UNCHANGED <<n_gpus, n_jobs, n_put, queue_buffer, queue_pipe, worker_job, run_count>>
    /\ UNCHANGED queueOthers

\* queue.empty(): nothing can be read from the pipe now
QueueEmpty == queue_pipe = <<>>

\* worker: while not queue.empty()
WorkerCheck(w) ==
    /\ worker_pc[w] = "check"
    /\ worker_pc' = [worker_pc EXCEPT ![w] = IF QueueEmpty THEN "exited" ELSE "get"]
    /\ UNCHANGED <<queue_pc, n_gpus, n_jobs, n_put, queue_buffer, queue_pipe, worker_job,
                   run_count>>
    /\ UNCHANGED queueOthers

\* worker: learned_dict, cfg = queue.get(), which waits for a job in the pipe
WorkerGet(w) ==
    /\ worker_pc[w] = "get"
    /\ queue_pipe # <<>>
    /\ worker_job' = [worker_job EXCEPT ![w] = Head(queue_pipe)]
    /\ queue_pipe' = Tail(queue_pipe)
    /\ worker_pc' = [worker_pc EXCEPT ![w] = "run"]
    /\ UNCHANGED <<queue_pc, n_gpus, n_jobs, n_put, queue_buffer, run_count>>
    /\ UNCHANGED queueOthers

\* worker: run(learned_dict, cfg) to its end
WorkerRun(w) ==
    /\ worker_pc[w] = "run"
    /\ run_count' = [run_count EXCEPT ![worker_job[w]] = @ + 1]
    /\ worker_job' = [worker_job EXCEPT ![w] = 0]
    /\ worker_pc' = [worker_pc EXCEPT ![w] = "check"]
    /\ UNCHANGED <<queue_pc, n_gpus, n_jobs, n_put, queue_buffer, queue_pipe>>
    /\ UNCHANGED queueOthers

\* for p in processes: p.join() returns when every worker has exited
JoinWorkers ==
    /\ queue_pc = "joining"
    /\ \A w \in Workers : worker_pc[w] = "exited"
    /\ queue_pc' = "joined"
    /\ UNCHANGED <<n_gpus, n_jobs, n_put, queue_buffer, queue_pipe, worker_pc, worker_job,
                   run_count>>
    /\ UNCHANGED queueOthers

-----------------------------------------------------------------------------
(* The sentence datasets of run_real_data_model: the first one is made by
   setup_data or found in the dataset folder, and with cfg.refresh_data a new
   one is made after every mini-run. A dataset is the set of the line indexes
   of the source it holds. *)

DatasetNames == {"EleutherAI/pile", "NeelNanda/pile-10k"}

\* read_from_pile: the lines i of the file with start_line <= i < max_lines + start_line
read_from_pile(len, lines, start_line) ==
    {i \in 0 .. (len - 1) : ~(i < start_line) /\ ~(i >= lines + start_line)}

\* make_sentence_dataset: the pile is read from start_line, any other dataset
\* is its whole train split
make_sentence_dataset(name, len, lines, start_line) ==
    IF name = "EleutherAI/pile"
    THEN read_from_pile(len, lines, start_line)
    ELSE 0 .. (len - 1)

DataIdle ==
    /\ data_pc = "off"
    /\ dataset_name = ""
    /\ source_len = 0
    /\ max_lines = 0
    /\ folder_lines = {}
    /\ cfg_max_lines = 0
    /\ refresh_data = FALSE
    /\ n_lines = 0
    /\ data_mini_runs = 0
    /\ data_mini_run = 0
    /\ sentence_datasets = <<>>

\* run_real_data_model before it looks into the dataset folder
DataInit ==
    /\ data_pc = "setup"
    /\ dataset_name \in DatasetNames
    /\ source_len \in 1 .. MaxSourceLen
    /\ max_lines \in 1 .. MaxLines
    /\ folder_lines \in {{}} \cup {0 .. (n - 1) : n \in 1 .. MaxLines}
    /\ cfg_max_lines \in 1 .. MaxLines
    /\ refresh_data \in BOOLEAN
    /\ n_lines = 0
    /\ data_mini_runs \in 1 .. MaxMiniRuns
    /\ data_mini_run = 0
    /\ sentence_datasets = <<>>

\* if len(os.listdir(cfg.dataset_folder)) == 0: n_lines = setup_data(...)
\* else: n_lines = cfg.max_lines
DataSetup ==
    /\ data_pc = "setup"
    /\ LET made == make_sentence_dataset(dataset_name, source_len, max_lines, 0)
       IN IF folder_lines = {}
          THEN /\ sentence_datasets' = <<[start_line |-> 0, lines |-> made, used |-> FALSE]>>
               /\ n_lines' = Cardinality(made)
          ELSE /\ sentence_datasets' =
                      <<[start_line |-> 0, lines |-> folder_lines, used |-> FALSE]>>
               /\ n_lines' = cfg_max_lines
    /\ data_pc' = "train"
    /\ UNCHANGED <<dataset_name, source_len, max_lines, folder_lines, cfg_max_lines,
                   refresh_data, data_mini_runs, data_mini_run>>
    /\ UNCHANGED dataOthers

\* the cells of one mini-run are trained on the activations in the folder
DataTrain ==
    /\ data_pc = "train"
    /\ data_mini_run < data_mini_runs
    /\ sentence_datasets' =
           [sentence_datasets EXCEPT ![Len(sentence_datasets)].used = TRUE]
    /\ data_pc' = "trained"
    /\ UNCHANGED <<dataset_name, source_len, max_lines, folder_lines, cfg_max_lines,
                   refresh_data, n_lines, data_mini_runs, data_mini_run>>
    /\ UNCHANGED dataOthers

\* the end of a mini-run: if cfg.refresh_data the folder is emptied and
\* n_new_lines = setup_data(..., start_line=n_lines); n_lines += n_new_lines
DataRefresh ==
    /\ data_pc = "trained"
    /\ LET made == make_sentence_dataset(dataset_name, source_len, max_lines, n_lines)
       IN IF refresh_data
          THEN /\ sentence_datasets' =
                      Append(sentence_datasets,
                             [start_line |-> n_lines, lines |-> made, used |-> FALSE])
               /\ n_lines' = n_lines + Cardinality(made)
          ELSE UNCHANGED <<sentence_datasets, n_lines>>
    /\ data_mini_run' = data_mini_run + 1
    /\ data_pc' = IF data_mini_run + 1 < data_mini_runs THEN "train" ELSE "done"
    /\ UNCHANGED <<dataset_name, source_len, max_lines, folder_lines, cfg_max_lines,
                   refresh_data, data_mini_runs>>
    /\ UNCHANGED dataOthers

-----------------------------------------------------------------------------
(* The generator object of run_toy_model. Tensors live in the sequence
   tensors and are referred to by their index, so that an operation in place
   on a tensor is seen through every reference to it; an object field that
   was never assigned is the reference 0. The configuration of the generator
   is that of the synthetic dataset generator above. *)

\* feature banks generate_rand_feats can return: rows of unit norm
FeatDraws ==
    {[i \in 1 .. n_ground_truth_components |-> row] : row \in {<<UnitLen, 0>>, <<0, UnitLen>>}}

\* matrices generate_corr_matrix can return: symmetric, entries over GridDen
CorrDraws ==
    {[i \in 1 .. n_ground_truth_components |->
         [j \in 1 .. n_ground_truth_components |-> IF i = j THEN GridDen ELSE c]] :
        c \in UniformDraws}

\* RandomDatasetGenerator(...): __post_init__ makes decay, then corr_matrix or
\* component_probs, then feats
NewGenerator(heap, corr, feats) ==
    LET n == Len(heap)
    IN  [tensors |-> heap \o <<decay, IF correlated THEN corr ELSE PostInitComponentProbs,
                               feats>>,
         object |-> [decay |-> n + 1,
                     corr_matrix |-> IF correlated THEN n + 2 ELSE 0,
                     component_probs |-> IF correlated THEN 0 ELSE n + 2,
                     feats |-> n + 3]]

\* the tensors a generator object refers to and their values
GeneratorState(heap, object) ==
    [object |-> object,
     decay |-> heap[object.decay],
     feats |-> heap[object.feats],
     corr_matrix |-> IF object.corr_matrix = 0 THEN <<>> ELSE heap[object.corr_matrix],
     component_probs |->
         IF object.component_probs = 0 THEN <<>> ELSE heap[object.component_probs]]

\* the product written over the decay
ProductRefInPlace(heap, cdf_ref, decay_ref) == decay_ref

\* component_probs = cdf * decay: the product is a new tensor
ProductRef(heap, cdf_ref, decay_ref) == Len(heap) + 1

\* write value at reference ref, which is a tensor of the heap or the next one
Store(heap, ref, value) ==
    IF ref > Len(heap) THEN Append(heap, value) ELSE [heap EXCEPT ![ref] = value]

\* generate_correlated_dataset up to the scaling of component_probs in place;
\* cdf is normal.cdf of the sample of the multivariate normal
CorrelatedProbs(heap, decay_ref, cdf) ==
    LET n == n_ground_truth_components
        with_cdf == Append(heap, [i \in 1 .. n |-> R(cdf[i], GridDen)])
        cdf_ref == Len(with_cdf)
        ref == ProductRef(with_cdf, cdf_ref, decay_ref)
        product == [i \in 1 .. n |-> RMul(with_cdf[cdf_ref][i], with_cdf[decay_ref][i])]
        with_product == Store(with_cdf, ref, product)
        mean_prob == RDiv(RSum(product), R(n, 1))
        scaler == RDiv(frac_nonzero, mean_prob)
        scaled == [i \in 1 .. n |-> RMul(with_product[ref][i], scaler)]
    IN  [tensors |-> Store(with_product, ref, scaled), ref |-> ref]

\* the tensors that are left when the locals of a call are dropped
Return(heap, before) == SubSeq(heap, 1, Len(before))

\* if not data_generator: data_generator = RandomDatasetGenerator(...)
GeneratorMade(passed) == passed = 0

SharedIdle ==
    /\ shared_pc = "off"
    /\ tensors = <<>>
    /\ generators = <<>>
    /\ data_generator = 0
    /\ constructed = <<>>
    /\ toy_cells = 0
    /\ toy_cell = 0
    /\ cell_generators = <<>>
    /\ epochs = 0
    /\ epoch = 0
    /\ batch = <<>>

\* run_toy_model before the generator is made, with the configuration of the generator
SharedInit ==
    /\ shared_pc = "start"
    /\ tensors = <<>>
    /\ generators = <<>>
    /\ data_generator = 0
    /\ constructed = <<>>
    /\ toy_cells \in 1 .. MaxCells
    /\ toy_cell = 0
    /\ cell_generators = <<>>
    /\ epochs = 1
    /\ epoch = 0
    /\ batch = <<>>
    /\ gen_pc = "off"
    /\ correlated \in BOOLEAN
    /\ n_ground_truth_components \in 1 .. MaxComponents
    /\ batch_size = 1
    /\ feature_num_nonzero \in 1 .. n_ground_truth_components
    /\ feature_prob_decay \in Decays
    /\ component_probs = <<>>
    /\ dataset_codes = <<>>

\* run_toy_model: data_generator = RandomDatasetGenerator(...)
SharedMakeGenerator ==
    /\ shared_pc = "start"
    /\ \E corr \in CorrDraws :
       \E feats \in FeatDraws :
          LET made == NewGenerator(tensors, corr, feats) IN
          /\ tensors' = made.tensors
          /\ generators' = <<made.object>>
          /\ constructed' = GeneratorState(made.tensors, made.object)
    /\ data_generator' = 1
    /\ shared_pc' = "cell"
    /\ UNCHANGED <<toy_cells, toy_cell, cell_generators, epochs, epoch, batch>>
    /\ UNCHANGED sharedOthers

\* run_single_go(cfg, data_generator) up to the training loop: the generator
\* passed is used unless it is falsy; a new AutoEncoder is made
CellBegin ==
    /\ shared_pc = "cell"
    /\ toy_cell < toy_cells
    /\ IF GeneratorMade(data_generator)
       THEN \E corr \in CorrDraws :
            \E feats \in FeatDraws :
               LET made == NewGenerator(tensors, corr, feats) IN
               /\ tensors' = Append(made.tensors, 0)
               /\ generators' = Append(generators, made.object)
               /\ cell_generators' = Append(cell_generators, Len(generators) + 1)
       ELSE /\ tensors' = Append(tensors, 0)
            /\ generators' = generators
            /\ cell_generators' = Append(cell_generators, data_generator)
    /\ epoch' = 0
    /\ shared_pc' = "train"
    /\ UNCHANGED <<data_generator, constructed, toy_cells, toy_cell, epochs, batch>>
    /\ UNCHANGED sharedOthers

\* the generator the running cell draws from
CellGenerator == generators[cell_generators[Len(cell_generators)]]

\* send: batch = next(data_generator) for every value of the random draws and
\* the tensors after it; step is what the optimizer adds to the parameters of
\* the autoencoder of the cell after the batch
NextBatch(object, step) ==
    IF correlated
    THEN \E cdf \in [1 .. n_ground_truth_components -> CdfDraws] :
            LET probs == CorrelatedProbs(tensors, object.decay, cdf)
                after == Return(probs.tensors, tensors)
            IN  \E codes \in SparseCodes(probs.tensors[probs.ref]) :
                \E random_index \in [ZeroSampleIndex(codes) -> 1 .. n_ground_truth_components] :
                   /\ batch' = [codes |-> ForceComponent(codes, random_index),
                                feats |-> probs.tensors[object.feats]]
                   /\ tensors' = [after EXCEPT ![Len(after)] = @ + step]
    ELSE \E codes \in SparseCodes(tensors[object.component_probs]) :
            /\ batch' = [codes |-> codes, feats |-> tensors[object.feats]]
            /\ tensors' = [tensors EXCEPT ![Len(tensors)] = @ + step]

\* one epoch of run_single_go: batch = next(data_generator), and the optimizer
\* step changes the parameters of the autoencoder of the cell in place
CellEpoch ==
    /\ shared_pc = "train"
    /\ epoch < epochs
    /\ NextBatch(CellGenerator, 1)
    /\ epoch' = epoch + 1
    /\ UNCHANGED <<shared_pc, generators, data_generator, constructed, toy_cells, toy_cell,
                   cell_generators, epochs>>
    /\ UNCHANGED sharedOthers

\* for batch_ndx, batch in enumerate(data_generator): the tensors after a
\* batch that get_n_dead_features drew and dropped
DroppedBatch(object) ==
    IF correlated
    THEN \E cdf \in [1 .. n_ground_truth_components -> CdfDraws] :
            tensors' = Return(CorrelatedProbs(tensors, object.decay, cdf).tensors, tensors)
    ELSE tensors' = tensors

\* the end of run_single_go: mean_max_cosine_similarity reads the feature bank,
\* get_n_dead_features draws further batches, and the locals are dropped
CellEnd ==
    /\ shared_pc = "train"
    /\ epoch = epochs
    /\ DroppedBatch(CellGenerator)
    /\ batch' = <<>>
    /\ toy_cell' = toy_cell + 1
    /\ shared_pc' = IF toy_cell + 1 < toy_cells THEN "cell" ELSE "done"
    /\ UNCHANGED <<generators, data_generator, constructed, toy_cells, cell_generators,
                   epochs, epoch>>
    /\ UNCHANGED sharedOthers

-----------------------------------------------------------------------------
(* UntiedSAE and TiedSAE. As for the generator, a tensor is an entry of the
   sequence sae_tensors, here with the device it is on, and the object and
   its caller hold references. A matrix is a sequence of rows in the plane,
   in the lattice units of the decoder above. *)

Devices == {"cpu", "cuda:0"}

\* the encoder and decoder matrices, biases and batches the model draws from
SaeMatrices == {<<<<2, 0>>, <<0, -1>>>>, <<<<0, 0>>, <<1, 1>>>>}

SaeBiases == {<<0, 0>>, <<-1, 1>>}

SaeBatches == {<<<<1, 0>>>>, <<<<-1, 1>>, <<2, 2>>>>}

Tensor(device, value) == [device |-> device, value |-> value]

\* the division written over the stored matrix
QuotientRefInPlace(heap, matrix_ref) == matrix_ref

\* matrix / torch.clamp(norms, 1e-8)[:, None]: the quotient is a new tensor
QuotientRef(heap, matrix_ref) == Len(heap) + 1

\* norms = torch.norm(matrix, 2, dim=-1); matrix / torch.clamp(norms, 1e-8)[:, None]
NormalizedRows(heap, matrix_ref) ==
    LET ref == QuotientRef(heap, matrix_ref)
        rows == heap[matrix_ref].value
        quotient == [n \in DOMAIN rows |-> NormalizeVector(rows[n])]
    IN  [tensors |-> Store(heap, ref, Tensor(heap[matrix_ref].device, quotient)), ref |-> ref]

\* get_learned_dict of the two classes
get_learned_dict(heap, object) ==
    NormalizedRows(heap, IF sae_class = "UntiedSAE" THEN object.decoder ELSE object.encoder)

\* torch.clamp(c, min=0.0) for one entry
ClampMin0(x) == IF x < 0 THEN 0 ELSE x

\* encode of the two classes: einsum("nd,bd->bn"), + encoder_bias, clamp
encode(heap, object, batch_ref) ==
    LET normed == IF sae_class = "TiedSAE" /\ norm_encoder
                  THEN NormalizedRows(heap, object.encoder)
                  ELSE [tensors |-> heap, ref |-> object.encoder]
        h == normed.tensors
        encoder == h[normed.ref].value
        bias == h[object.encoder_bias].value
        rows == h[batch_ref].value
        c == [b \in DOMAIN rows |->
                 [n \in DOMAIN encoder |-> ClampMin0(Dot(encoder[n], rows[b]) + bias[n])]]
    IN  [tensors |-> Append(h, Tensor(h[batch_ref].device, c)), ref |-> Len(h) + 1]

RECURSIVE WeightedSum(_, _, _)
\* the sum over n of c[n] * learned_dict[n], rows 1 .. n
WeightedSum(c, learned_dict, n) ==
    IF n = 0 THEN <<0, 0>>
    ELSE VAdd(WeightedSum(c, learned_dict, n - 1),
              <<c[n] * learned_dict[n][1], c[n] * learned_dict[n][2]>>)

\* LearnedDict.forward: encode, get_learned_dict, einsum("nd,bn->bd")
forward(heap, object, batch_ref) ==
    LET coded == encode(heap, object, batch_ref)
        dict == get_learned_dict(coded.tensors, object)
        h == dict.tensors
        c == h[coded.ref].value
        learned_dict == h[dict.ref].value
        x_hat == [b \in DOMAIN c |-> WeightedSum(c[b], learned_dict, Len(learned_dict))]
    IN  [tensors |-> Append(h, Tensor(h[coded.ref].device, x_hat)), ref |-> Len(h) + 1]

\* tensor.to(device): the tensor itself if it is on the device, else a copy there
To(heap, ref, device) ==
    IF heap[ref].device = device
    THEN [tensors |-> heap, ref |-> ref]
    ELSE [tensors |-> Append(heap, Tensor(device, heap[ref].value)), ref |-> Len(heap) + 1]

\* the tensors an object and its caller refer to, and their values
SaeState(heap, object, batch_ref) ==
    [object |-> object,
     encoder |-> heap[object.encoder].value,
     decoder |-> IF object.decoder = 0 THEN <<>> ELSE heap[object.decoder].value,
     encoder_bias |-> heap[object.encoder_bias].value,
     batch_ref |-> batch_ref,
     batch |-> heap[batch_ref]]

SaeIdle ==
    /\ sae_pc = "off"
    /\ sae_class = ""
    /\ norm_encoder = FALSE
    /\ sae_tensors = <<>>
    /\ sae = <<>>
    /\ caller_batch = 0
    /\ sae_made = <<>>
    /\ sae_calls = 0
    /\ to_device_calls = 0
    /\ sae_result = <<>>

\* UntiedSAE(encoder, decoder, encoder_bias) or TiedSAE(encoder, encoder_bias,
\* norm_encoder), and a batch of the caller on the same device
SaeInit ==
    /\ sae_pc = "made"
    /\ sae_class \in {"UntiedSAE", "TiedSAE"}
    /\ norm_encoder \in IF sae_class = "TiedSAE" THEN BOOLEAN ELSE {FALSE}
    /\ \E device \in Devices, enc \in SaeMatrices, dec \in SaeMatrices,
          bias \in SaeBiases, rows \in SaeBatches :
          /\ sae_tensors = IF sae_class = "UntiedSAE"
                           THEN <<Tensor(device, enc), Tensor(device, bias),
                                  Tensor(device, rows), Tensor(device, dec)>>
                           ELSE <<Tensor(device, enc), Tensor(device, bias),
                                  Tensor(device, rows)>>
    /\ sae = [encoder |-> 1, encoder_bias |-> 2,
              decoder |-> IF sae_class = "UntiedSAE" THEN 4 ELSE 0]
    /\ caller_batch = 3
    /\ sae_made = SaeState(sae_tensors, sae, caller_batch)
    /\ sae_calls = 0
    /\ to_device_calls = 0
    /\ sae_result = <<>>

\* the caller keeps the value returned; the other tensors of the call are dropped
SaeReturn(call, returned) ==
    /\ sae_tensors' = Return(returned.tensors, sae_tensors)
    /\ sae_result' = [call |-> call, value |-> returned.tensors[returned.ref].value]
    /\ sae_calls' = sae_calls + 1
    /\ UNCHANGED <<sae_pc, sae_class, norm_encoder, sae, caller_batch, sae_made,
                   to_device_calls>>
    /\ UNCHANGED saeOthers

CallGetLearnedDict ==
    /\ sae_pc = "made"
    /\ sae_calls < MaxCalls
    /\ SaeReturn("get_learned_dict", get_learned_dict(sae_tensors, sae))

\* einsum raises if the batch is not on the device of the encoder
CallEncode ==
    /\ sae_pc = "made"
    /\ sae_calls < MaxCalls
    /\ sae_tensors[caller_batch].device = sae_tensors[sae.encoder].device
    /\ SaeReturn("encode", encode(sae_tensors, sae, caller_batch))

CallForward ==
    /\ sae_pc = "made"
    /\ sae_calls < MaxCalls
    /\ sae_tensors[caller_batch].device = sae_tensors[sae.encoder].device
    /\ SaeReturn("forward", forward(sae_tensors, sae, caller_batch))

\* to_device: every owned tensor is assigned the result of .to(device)
CallToDevice(device) ==
    /\ sae_pc = "made"
    /\ sae_calls < MaxCalls
    /\ LET enc == To(sae_tensors, sae.encoder, device)
           dec == IF sae_class = "UntiedSAE"
                  THEN To(enc.tensors, sae.decoder, device)
                  ELSE [tensors |-> enc.tensors, ref |-> 0]
           bias == To(dec.tensors, sae.encoder_bias, device)
       IN  /\ sae_tensors' = bias.tensors
           /\ sae' = [encoder |-> enc.ref, decoder |-> dec.ref, encoder_bias |-> bias.ref]
    /\ sae_result' = [call |-> "to_device", value |-> <<>>]
    /\ sae_calls' = sae_calls + 1
    /\ to_device_calls' = to_device_calls + 1
    /\ UNCHANGED <<sae_pc, sae_class, norm_encoder, caller_batch, sae_made>>
    /\ UNCHANGED saeOthers

\* the caller moves its batch to the device of the dictionary
CallerMovesBatch ==
    /\ sae_pc = "made"
    /\ sae_tensors[caller_batch].device # sae_tensors[sae.encoder].device
    /\ LET moved == To(sae_tensors, caller_batch, sae_tensors[sae.encoder].device)
       IN  /\ sae_tensors' = moved.tensors
           /\ caller_batch' = moved.ref
    /\ UNCHANGED <<sae_pc, sae_class, norm_encoder, sae, sae_made, sae_calls,
                   to_device_calls, sae_result>>
    /\ UNCHANGED saeOthers

-----------------------------------------------------------------------------
(* Two runs of main with the same cfg.seed. A run has three random number
   generators: the default generators of torch for the CPU and for CUDA and
   the global generator of numpy. The state of a generator is a number below
   RngModulus; a draw advances the state and is a function of the new state.
   Before it is seeded a generator is in a state that differs from run to
   run. The configuration of the dataset generator is that of the synthetic
   dataset generator above. *)

Run == {1, 2}

\* the states the generators of a process can start in
Entropy == {1, 2}

\* one draw: the next state of a generator
Advance(g) == (5 * g + 3) % RngModulus

RECURSIVE Iterate(_, _)
\* the state of a generator after k draws
Iterate(g, k) == IF k = 0 THEN g ELSE Iterate(Advance(g), k - 1)

\* a uniform draw from the state it leaves, as the numerator over GridDen
Uniform(g) == g % GridDen

\* torch.rand(b, n) or np.random.rand(b, n) from a generator in state g
RandMatrix(g, b, n) ==
    [r \in 1 .. b |-> [i \in 1 .. n |-> Uniform(Iterate(g, (r - 1) * n + i))]]

\* numpy is left as it was
np_random_seed_omitted(g, s) == g

\* np.random.seed(cfg.seed)
np_random_seed(g, s) == s % RngModulus

\* torch.manual_seed(cfg.seed), for the CPU generator and the CUDA generators
manual_seed(g, s) == s % RngModulus

\* the torch generator that draws for tensors on the device
DeviceRng(device) == IF device = "cpu" THEN "torch_cpu" ELSE "torch_cuda"

\* generate_rand_feats: rows of unit norm from n draws of numpy
RandFeats(g, n) ==
    [i \in 1 .. n |->
        IF Iterate(g, i) % 2 = 0 THEN <<UnitLen, 0>> ELSE <<0, UnitLen>>]

\* generate_corr_matrix: np.random.rand(n, n), made symmetric
RandCorrMatrix(g, n) ==
    LET m == RandMatrix(g, n, n)
    IN  [i \in 1 .. n |-> [j \in 1 .. n |-> m[i][j] + m[j][i]]]

RECURSIVE SumTo(_, _)
SumTo(f, n) == IF n = 0 THEN 0 ELSE f[n] + SumTo(f, n - 1)

\* normal.cdf(mvn.sample()): n draws of the device generator, correlated
\* through corr_matrix, as numerators over GridDen
SampleCdf(g, corr_matrix, n) ==
    [i \in 1 .. n |-> 1 + ((Uniform(Iterate(g, i)) + SumTo(corr_matrix[i], n)) % GridDen)]

\* torch.where(dataset_thresh <= probs, dataset_values, data_zero)
Where(thresh, probs, values) ==
    [r \in DOMAIN thresh |->
        [i \in DOMAIN thresh[r] |->
            IF RLe(R(thresh[r][i], GridDen), probs[i]) THEN values[r][i] ELSE 0]]

RECURSIVE RowTimesFeats(_, _, _, _)
\* (dataset_codes * feature_strengths) @ feats for one row, components 1 .. n
RowTimesFeats(codes, strengths, feats, n) ==
    IF n = 0 THEN <<0, 0>>
    ELSE VAdd(RowTimesFeats(codes, strengths, feats, n - 1),
              <<codes[n] * strengths[n] * feats[n][1], codes[n] * strengths[n] * feats[n][2]>>)

Dataset(codes, strengths, feats) ==
    [r \in DOMAIN codes |->
        RowTimesFeats(codes[r], strengths[r], feats, n_ground_truth_components)]

\* generate_rand_dataset: what it returns and the generators after it
RandDataset(rngs, device, probs, feats) ==
    LET n == n_ground_truth_components
        k == batch_size * n
        dev == DeviceRng(device)
        g == rngs[dev]
        dataset_thresh == RandMatrix(g, batch_size, n)
        dataset_values == RandMatrix(Iterate(g, k), batch_size, n)
        codes == Where(dataset_thresh, probs, dataset_values)
        feature_strengths == RandMatrix(Iterate(g, 2 * k), batch_size, n)
    IN  [rngs |-> [rngs EXCEPT ![dev] = Iterate(g, 3 * k)],
         output |-> [feats |-> feats, dataset_codes |-> codes,
                     dataset |-> Dataset(codes, feature_strengths, feats),
                     forced |-> FALSE]]

\* generate_correlated_dataset: what it returns and the generators after it;
\* torch.randint draws the forced components from the CPU generator
CorrelatedDataset(rngs, device, corr_matrix, feats) ==
    LET n == n_ground_truth_components
        k == batch_size * n
        dev == DeviceRng(device)
        g == rngs[dev]
        probs == ScaledComponentProbs(SampleCdf(g, corr_matrix, n))
        dataset_thresh == RandMatrix(Iterate(g, n), batch_size, n)
        dataset_values == RandMatrix(Iterate(g, n + k), batch_size, n)
        sparse == Where(dataset_thresh, probs, dataset_values)
        zero_sample_index == ZeroSampleIndex(sparse)
        zeros == Cardinality(zero_sample_index)
        drawn == [rngs EXCEPT ![dev] = Iterate(g, n + 2 * k)]
        cpu == drawn["torch_cpu"]
        random_index ==
            [r \in zero_sample_index |->
                1 + (Iterate(cpu, Cardinality({z \in zero_sample_index : z <= r})) % n)]
        forced == [drawn EXCEPT !["torch_cpu"] = Iterate(cpu, zeros)]
        codes == ForceComponent(sparse, random_index)
        feature_strengths == RandMatrix(forced[dev], batch_size, n)
    IN  [rngs |-> [forced EXCEPT ![dev] = Iterate(@, k)],
         output |-> [feats |-> feats, dataset_codes |-> codes,
                     dataset |-> Dataset(codes, feature_strengths, feats),
                     forced |-> zero_sample_index # {}]]

SeedIdle ==
    /\ seed = 0
    /\ seed_device = ""
    /\ n_sends = 0
    /\ runs = <<>>

\* two processes at the start of main, with the configuration of the generator
SeedInit ==
    /\ seed \in 0 .. MaxSeed
    /\ seed_device \in {"cpu", "cuda"}
    /\ n_sends \in 1 .. MaxSends
    /\ runs \in {[r \in Run |->
                    [pc |-> "start", entropy |-> e[r],
                     rngs |-> [name \in {"torch_cpu", "torch_cuda", "numpy"} |-> e[r]],
                     feats |-> <<>>, corr_matrix |-> <<>>, outputs |-> <<>>]] :
                 e \in [Run -> Entropy]}
    /\ gen_pc = "off"
    /\ correlated \in BOOLEAN
    /\ n_ground_truth_components \in 1 .. MaxComponents
    /\ batch_size \in 1 .. MaxBatchSize
    /\ feature_num_nonzero \in 1 .. n_ground_truth_components
    /\ feature_prob_decay \in Decays
    /\ component_probs = <<>>
    /\ dataset_codes = <<>>

\* main: torch.manual_seed(cfg.seed); np.random.seed(cfg.seed)
MainSeeds(r) ==
    /\ runs[r].pc = "start"
    /\ runs' = [runs EXCEPT
                   ![r].rngs = [torch_cpu |-> manual_seed(@["torch_cpu"], seed),
                                torch_cuda |-> manual_seed(@["torch_cuda"], seed),
                                numpy |-> np_random_seed(@["numpy"], seed)],
                   ![r].pc = "seeded"]
    /\ UNCHANGED <<seed, seed_device, n_sends>>
    /\ UNCHANGED seedOthers

\* RandomDatasetGenerator.__post_init__: generate_corr_matrix in correlated
\* mode, then generate_rand_feats, both from numpy
MakeGenerator(r) ==
    /\ runs[r].pc = "seeded"
    /\ LET n == n_ground_truth_components
           g == runs[r].rngs["numpy"]
           after_corr == IF correlated THEN Iterate(g, n * n) ELSE g
       IN  runs' = [runs EXCEPT
                       ![r].corr_matrix = IF correlated THEN RandCorrMatrix(g, n) ELSE <<>>,
                       ![r].feats = RandFeats(after_corr, n),
                       ![r].rngs = [@ EXCEPT !["numpy"] = Iterate(after_corr, n)],
                       ![r].pc = "constructed"]
    /\ UNCHANGED <<seed, seed_device, n_sends>>
    /\ UNCHANGED seedOthers

\* RandomDatasetGenerator.send
SendBatch(r) ==
    /\ runs[r].pc = "constructed"
    /\ LET sent == IF correlated
                   THEN CorrelatedDataset(runs[r].rngs, seed_device, runs[r].corr_matrix,
                                          runs[r].feats)
                   ELSE RandDataset(runs[r].rngs, seed_device, PostInitComponentProbs,
                                    runs[r].feats)
       IN  runs' = [runs EXCEPT
                       ![r].rngs = sent.rngs,
                       ![r].outputs = Append(@, sent.output),
                       ![r].pc = IF Len(runs[r].outputs) + 1 = n_sends
                                 THEN "done" ELSE "constructed"]
    /\ UNCHANGED <<seed, seed_device, n_sends>>
    /\ UNCHANGED seedOthers

-----------------------------------------------------------------------------
(* make_activation_dataset. The batches of the token loader are numbered
   from 1; the activations of a batch are a table of at least one row, so
   the rows of a chunk are those of its batches. A chunk file is its number
   with the batches it holds; writing a file replaces the one of that name. *)

\* the list kept for the next chunk
KeepList(dataset) == dataset

\* dataset = [] after a chunk was saved
RestartList(dataset) == <<>>

\* save_activation_chunk: the file n_saved_chunks.pkl with the batches of the list
save_activation_chunk(files, dataset, n) ==
    {f \in files : f.name # n} \cup {[name |-> n, batches |-> dataset]}

ChunkIdle ==
    /\ chunk_pc = "off"
    /\ sentence_batches = 0
    /\ max_chunks = 0
    /\ n_chunks = 0
    /\ batch_idx = 0
    /\ chunk_dataset = <<>>
    /\ n_saved_chunks = 0
    /\ chunk_files = {}

\* make_activation_dataset before the loop, the dataset folder being empty
ChunkInit ==
    /\ chunk_pc = "loop"
    /\ sentence_batches \in 0 .. MaxInputBatches
    /\ max_chunks \in 0 .. MaxChunkBatches
    /\ n_chunks \in 0 .. MaxChunks
    /\ batch_idx = 0
    /\ chunk_dataset = <<>>
    /\ n_saved_chunks = 0
    /\ chunk_files = {}

\* one pass of the loop over the batches: the activations are appended, and
\* a full list is saved as the next chunk; the loop is left after cfg.n_chunks chunks
ChunkBatch ==
    /\ chunk_pc = "loop"
    /\ batch_idx < sentence_batches
    /\ batch_idx' = batch_idx + 1
    /\ LET dataset == Append(chunk_dataset, batch_idx + 1)
       IN  IF Len(dataset) >= max_chunks
           THEN /\ chunk_files' = save_activation_chunk(chunk_files, dataset, n_saved_chunks)
                /\ n_saved_chunks' = n_saved_chunks + 1
                /\ chunk_dataset' = RestartList(dataset)
                /\ chunk_pc' = IF n_saved_chunks + 1 = n_chunks THEN "after" ELSE "loop"
           ELSE /\ chunk_dataset' = dataset
                /\ UNCHANGED <<chunk_files, n_saved_chunks, chunk_pc>>
    /\ UNCHANGED <<sentence_batches, max_chunks, n_chunks>>
    /\ UNCHANGED chunkOthers

\* the token loader has no further batch
ChunkLoopEnds ==
    /\ chunk_pc = "loop"
    /\ batch_idx = sentence_batches
    /\ chunk_pc' = "after"
    /\ UNCHANGED <<sentence_batches, max_chunks, n_chunks, batch_idx, chunk_dataset,
                   n_saved_chunks, chunk_files>>
    /\ UNCHANGED chunkOthers

\* after the loop: if n_saved_chunks < cfg.n_chunks the list is saved as an
\* undersized chunk; torch.cat raises on an empty list
ChunkSaveRest ==
    /\ chunk_pc = "after"
    /\ IF n_saved_chunks < n_chunks
       THEN IF chunk_dataset = <<>>
            THEN /\ chunk_pc' = "raised"
                 /\ UNCHANGED chunk_files
            ELSE /\ chunk_files' =
                        save_activation_chunk(chunk_files, chunk_dataset, n_saved_chunks)
                 /\ chunk_pc' = "returned"
       ELSE /\ chunk_pc' = "returned"
            /\ UNCHANGED chunk_files
    /\ UNCHANGED <<sentence_batches, max_chunks, n_chunks, batch_idx, chunk_dataset,
                   n_saved_chunks>>
    /\ UNCHANGED chunkOthers

-----------------------------------------------------------------------------
(* The dead-feature counts. dict_levels, the output of the encoder for a
   batch, is a matrix of rows x features of activations after the ReLU, here
   0 or 1; the encoder itself is not modelled, every such matrix can occur.
   feature_activations is a vector of exact rationals. *)

\* the period of the running averages of run_with_real_data
time_horizon == 1000

\* the dictionary sizes of the cells
DeadDictSizes == {1, 2}

\* the dict_levels a batch can give
DictLevels == UNION {[1 .. rows -> [1 .. dict_features -> {0, 1}]] : rows \in {1, 2}}

RECURSIVE ColumnSum(_, _, _)
ColumnSum(levels, f, rows) ==
    IF rows = 0 THEN 0 ELSE levels[rows][f] + ColumnSum(levels, f, rows - 1)

\* dict_levels.mean(dim=0)
MeanDim0(levels) ==
    [f \in 1 .. dict_features |-> R(ColumnSum(levels, f, Len(levels)), Len(levels))]

\* the count of the zero entries of the whole matrix
ZeroEntries(levels) ==
    Cardinality({<<r, f>> \in (DOMAIN levels) \X (1 .. dict_features) : levels[r][f] = 0})

\* dead_features = (dict_levels.mean(dim=0) == 0).count_nonzero()
DeadInBatch(levels) ==
    Cardinality({f \in 1 .. dict_features : REq(MeanDim0(levels)[f], R(0, 1))})

\* the running average replaced by the mean of the batch
LastMean(activations, mean) == mean

\* feature_activations *= (time_horizon - 1) / time_horizon
\* feature_activations += mean / time_horizon
RunningMean(activations, mean) ==
    [f \in DOMAIN activations |->
        R(activations[f].num * (time_horizon - 1) * mean[f].den + mean[f].num * activations[f].den,
          activations[f].den * time_horizon * mean[f].den)]

\* feature_activations.shape[0] - np.count_nonzero(feature_activations)
DeadEntry(activations) ==
    Len(activations) - Cardinality({f \in DOMAIN activations : ~REq(activations[f], R(0, 1))})

\* for batch_ndx, batch in enumerate(data_generator): input = batch[0]. An
\* item of a DataLoader is a tuple whose first member is the batch; an item
\* of a RandomDatasetGenerator is the batch, whose first member is its first row
SampledInput(kind, levels) ==
    IF kind = "DataLoader" THEN levels ELSE levels[1]

RECURSIVE Concat(_)
\* torch.cat(outputs): along the first dimension
Concat(outputs) == IF outputs = <<>> THEN <<>> ELSE Head(outputs) \o Concat(Tail(outputs))

RECURSIVE SeqSum(_)
SeqSum(s) == IF s = <<>> THEN 0 ELSE Head(s) + SeqSum(Tail(s))

\* get_n_dead_features: outputs = torch.cat(outputs); mean_activations =
\* outputs.mean(dim=0); (mean_activations == 0).sum(). With matrices the
\* mean is a vector over the features, with vectors it is one number
get_n_dead_features(kind, batches) ==
    LET outputs == Concat([b \in DOMAIN batches |-> SampledInput(kind, batches[b])])
    IN  IF kind = "DataLoader"
        THEN DeadInBatch(outputs)
        ELSE IF SeqSum(outputs) = 0 THEN 1 ELSE 0

DeadIdle ==
    /\ dead_pc = "off"
    /\ dict_features = 0
    /\ dead_calls = 0
    /\ dead_n_batches = 0
    /\ feature_activations = <<>>
    /\ running_dead_features = <<>>
    /\ active_features = {}
    /\ dead_features_entry = 0
    /\ source_kind = ""
    /\ sampled = <<>>
    /\ n_dead_features = 0

\* a cell of the sweep with its autoencoder, before it is trained
DeadInit ==
    /\ dead_pc = "cell"
    /\ dict_features \in DeadDictSizes
    /\ dead_calls = 0
    /\ dead_n_batches = 0
    /\ feature_activations = <<>>
    /\ running_dead_features = <<>>
    /\ active_features = {}
    /\ dead_features_entry = 0
    /\ source_kind \in {"DataLoader", "RandomDatasetGenerator"}
    /\ sampled = <<>>
    /\ n_dead_features = 0

\* run_with_real_data up to the loops: feature_activations = np.zeros(...)
DeadTrainBegin ==
    /\ dead_pc = "cell"
    /\ dead_calls < MaxMiniRuns
    /\ dead_calls' = dead_calls + 1
    /\ dead_n_batches' = 0
    /\ feature_activations' = [f \in 1 .. dict_features |-> R(0, 1)]
    /\ running_dead_features' = <<>>
    /\ active_features' = {}
    /\ dead_pc' = "train"
    /\ UNCHANGED <<dict_features, dead_features_entry, source_kind, sampled, n_dead_features>>
    /\ UNCHANGED deadOthers

\* one batch of run_with_real_data: the running metrics
DeadTrainBatch ==
    /\ dead_pc = "train"
    /\ dead_n_batches < MaxDeadBatches
    /\ \E levels \in DictLevels :
          LET mean == MeanDim0(levels) IN
          /\ running_dead_features' = Append(running_dead_features, DeadInBatch(levels))
          /\ feature_activations' = IF dead_n_batches + 1 = 1 THEN mean
                                    ELSE RunningMean(feature_activations, mean)
          /\ active_features' = active_features \cup
                                {f \in 1 .. dict_features : ~REq(mean[f], R(0, 1))}
    /\ dead_n_batches' = dead_n_batches + 1
    /\ UNCHANGED <<dead_pc, dict_features, dead_calls, dead_features_entry, source_kind,
                   sampled, n_dead_features>>
    /\ UNCHANGED deadOthers

\* the return of run_with_real_data and the entry of dead_features_matrix
DeadTrainReturn ==
    /\ dead_pc = "train"
    /\ dead_features_entry' = DeadEntry(feature_activations)
    /\ dead_pc' = "cell"
    /\ UNCHANGED <<dict_features, dead_calls, dead_n_batches, feature_activations,
                   running_dead_features, active_features, source_kind, sampled,
                   n_dead_features>>
    /\ UNCHANGED deadOthers

\* get_n_dead_features(auto_encoder, data_generator, n_batches): the loop is
\* left after the item with batch_ndx >= n_batches (limit here), or when a
\* DataLoader ends. It reads nothing of run_with_real_data, and is taken here
\* for a cell that run_with_real_data has not trained
DeadSample ==
    /\ dead_pc = "cell"
    /\ dead_calls = 0
    /\ \E limit \in 0 .. MaxSampleBatches :
       \E available \in IF source_kind = "DataLoader"
                        THEN 1 .. (limit + 1) ELSE {limit + 1} :
       \E batches \in [1 .. available -> DictLevels] :
          /\ sampled' = batches
          /\ n_dead_features' = get_n_dead_features(source_kind, batches)
    /\ dead_pc' = "sampled"
    /\ UNCHANGED <<dict_features, dead_calls, dead_n_batches, feature_activations,
                   running_dead_features, active_features, dead_features_entry, source_kind>>
    /\ UNCHANGED deadOthers

-----------------------------------------------------------------------------
(* The configuration. cfg is a dotdict: reading a key it does not hold raises
   AttributeError. A driver is taken as the sequence of its reads and writes
   of cfg, in the order the interpreter makes them. *)

\* the arguments parse_args adds to the parser, and cfg.device
ParsedKeys ==
    {"use_wandb", "n_ground_truth_components", "learned_dict_ratio", "max_length",
     "load_autoencoders", "model_batch_size", "batch_size", "noise_std", "l1_alpha",
     "learning_rate", "epochs", "noise_level", "feature_prob_decay",
     "feature_num_nonzero", "correlated_components", "l1_exp_low", "l1_exp_high",
     "l1_exp_base", "dict_ratio_exp_low", "dict_ratio_exp_high", "dict_ratio_exp_base",
     "run_toy", "model_name", "model_path", "dataset_name", "seed", "layer",
     "outputs_folder", "datasets_folder", "n_chunks", "threshold", "max_batches",
     "mini_runs", "device"}

\* the model names run_real_data_model recognises
ModelNames == {"gpt2", "EleutherAI/pythia-70m-deduped", "nanoGPT"}

Getattr(name) == <<"get", name>>

Setattr(name) == <<"set", name>>

\* make_activation_dataset up to its loop
make_activation_dataset_reads ==
    <<Getattr("dataset_folder"), Getattr("chunk_size_gb"), Getattr("activation_dim"),
      Getattr("model_batch_size"), Getattr("max_length")>>

\* setup_data
setup_data_reads ==
    <<Getattr("chunk_size_gb"), Getattr("n_chunks"), Getattr("activation_dim"),
      Getattr("dataset_name"), Getattr("layer"), Getattr("use_residual"),
      Getattr("model_name"), Getattr("max_length"), Getattr("model_batch_size")>>
    \o make_activation_dataset_reads

\* run_with_real_data up to its loops
run_with_real_data_reads ==
    <<Getattr("learning_rate"), Getattr("n_components_dictionary"),
      Getattr("dataset_folder"), Getattr("device"), Getattr("epochs")>>

\* run_real_data_model up to the first call of run_with_real_data
run_real_data_model_reads(args, empty) ==
    (IF args.model_name = "nanoGPT"
     THEN <<Getattr("model_name"), Getattr("model_name"), Getattr("model_path"),
            Getattr("model_path"), Getattr("device")>>
     ELSE <<Getattr("model_name"), Getattr("model_name"), Getattr("device")>>)
    \o <<Getattr("dataset_name"), Getattr("model_name"), Getattr("layer"),
         Getattr("datasets_folder"), Setattr("dataset_folder"), Getattr("dataset_folder"),
         Getattr("dataset_folder")>>
    \o (IF empty
        THEN <<Getattr("dataset_folder")>> \o setup_data_reads
        ELSE <<Getattr("dataset_folder"), Getattr("dataset_folder"),
               Setattr("activation_dim"), Getattr("max_lines")>>)
    \o <<Getattr("l1_exp_base"), Getattr("l1_exp_low"), Getattr("l1_exp_high"),
         Getattr("dict_ratio_exp_base"), Getattr("dict_ratio_exp_low"),
         Getattr("dict_ratio_exp_high"), Getattr("activation_dim"),
         Getattr("activation_dim"), Getattr("device"), Getattr("load_autoencoders"),
         Getattr("outputs_folder"), Getattr("use_wandb")>>
    \o (IF args.use_wandb THEN <<Getattr("model_name"), Getattr("layer")>> ELSE <<>>)
    \o <<Getattr("mini_runs"), Getattr("save_after_mini"), Getattr("use_wandb"),
         Setattr("l1_alpha"), Setattr("n_components_dictionary"), Getattr("mini_runs")>>
    \o run_with_real_data_reads

\* run_toy_model up to the first call of run_single_go
run_toy_model_reads(args) ==
    <<Getattr("activation_dim"), Getattr("learned_dict_ratio"), Setattr("model_name"),
      Getattr("use_wandb")>>
    \o (IF args.use_wandb THEN <<Getattr("model_name")>> ELSE <<>>)
    \o <<Getattr("activation_dim"), Getattr("n_ground_truth_components"),
         Getattr("batch_size"), Getattr("feature_num_nonzero"),
         Getattr("feature_prob_decay"), Getattr("correlated_components"),
         Getattr("device"), Getattr("l1_exp_base"), Getattr("l1_exp_low"),
         Getattr("l1_exp_high"), Getattr("dict_ratio_exp_base"),
         Getattr("dict_ratio_exp_low"), Getattr("dict_ratio_exp_high"),
         Setattr("l1_alpha"), Setattr("learned_dict_ratio"),
         Getattr("n_ground_truth_components"), Getattr("learned_dict_ratio"),
         Setattr("n_components_dictionary")>>

\* main() after parse_args
main_reads(args, empty) ==
    <<Getattr("seed"), Getattr("seed"), Getattr("run_toy")>>
    \o (IF args.run_toy THEN run_toy_model_reads(args)
        ELSE run_real_data_model_reads(args, empty))

KeysIdle ==
    /\ keys_pc = "off"
    /\ argv = <<>>
    /\ folder_empty = FALSE
    /\ cfg_keys = {}
    /\ keys_program = <<>>
    /\ keys_ip = 0
    /\ keys_missing = ""

\* the process is started with a command line; the folder of the activations
\* is empty or holds chunks of an earlier run
KeysInit ==
    /\ keys_pc = "main"
    /\ argv \in [run_toy : BOOLEAN, use_wandb : BOOLEAN, model_name : ModelNames]
    /\ folder_empty \in BOOLEAN
    /\ cfg_keys = {}
    /\ keys_program = <<>>
    /\ keys_ip = 0
    /\ keys_missing = ""

\* cfg = parse_args()
KeysParseArgs ==
    /\ keys_pc = "main"
    /\ cfg_keys' = ParsedKeys
    /\ keys_program' = main_reads(argv, folder_empty)
    /\ keys_ip' = 1
    /\ keys_pc' = "run"
    /\ UNCHANGED <<argv, folder_empty, keys_missing>>
    /\ UNCHANGED keysOthers

\* dotdict.__getattr__ of a key cfg holds
KeysGetattr ==
    /\ keys_pc = "run"
    /\ keys_ip <= Len(keys_program)
    /\ keys_program[keys_ip][1] = "get"
    /\ keys_program[keys_ip][2] \in cfg_keys
    /\ keys_ip' = keys_ip + 1
    /\ UNCHANGED <<keys_pc, argv, folder_empty, cfg_keys, keys_program, keys_missing>>
    /\ UNCHANGED keysOthers

\* dotdict.__getattr__ of a key cfg does not hold: raise AttributeError
KeysGetattrRaises ==
    /\ keys_pc = "run"
    /\ keys_ip <= Len(keys_program)
    /\ keys_program[keys_ip][1] = "get"
    /\ keys_program[keys_ip][2] \notin cfg_keys
    /\ keys_missing' = keys_program[keys_ip][2]
    /\ keys_pc' = "AttributeError"
    /\ UNCHANGED <<argv, folder_empty, cfg_keys, keys_program, keys_ip>>
    /\ UNCHANGED keysOthers

\* dotdict.__setattr__
KeysSetattr ==
    /\ keys_pc = "run"
    /\ keys_ip <= Len(keys_program)
    /\ keys_program[keys_ip][1] = "set"
    /\ cfg_keys' = cfg_keys \cup {keys_program[keys_ip][2]}
    /\ keys_ip' = keys_ip + 1
    /\ UNCHANGED <<keys_pc, argv, folder_empty, keys_program, keys_missing>>
    /\ UNCHANGED keysOthers

-----------------------------------------------------------------------------
(* The loops of run_with_real_data: epochs, the chunks of the folder in a
   random order, the batches of a chunk. chunk_lens[c] is the number of
   batches the DataLoader of chunk c gives; optimizer_steps counts the calls
   of optimizer.step(). *)

\* n_batches > cfg.max_batches: the limit passed by one batch
PassedMaxBatches(limit, n) == limit # 0 /\ n > limit

\* if cfg.max_batches and n_batches >= cfg.max_batches
ReachedMaxBatches(limit, n) == limit # 0 /\ n >= limit

LoopIdle ==
    /\ loop_pc = "off"
    /\ loop_epochs = 0
    /\ max_batches = 0
    /\ chunk_lens = <<>>
    /\ loop_completed = 0
    /\ loop_epoch = 0
    /\ chunk_order = <<>>
    /\ chunk_ndx = 0
    /\ loop_batch_idx = 0
    /\ loop_n_batches = 0
    /\ breakout = FALSE
    /\ optimizer_steps = 0
    /\ total_batches = 0

\* run_with_real_data(cfg, auto_encoder, completed_batches) up to the loops:
\* n_batches = 0, breakout = False
LoopInit ==
    /\ loop_pc = "epochs"
    /\ loop_epochs \in 0 .. MaxLoopEpochs
    /\ max_batches \in 0 .. MaxMaxBatches
    /\ chunk_lens \in UNION {[1 .. n -> 1 .. MaxChunkBatches] : n \in 0 .. MaxChunks}
    /\ loop_completed \in 0 .. MaxCompleted
    /\ loop_epoch = 0
    /\ chunk_order = <<>>
    /\ chunk_ndx = 0
    /\ loop_batch_idx = 0
    /\ loop_n_batches = 0
    /\ breakout = FALSE
    /\ optimizer_steps = 0
    /\ total_batches = 0

\* for epoch in range(cfg.epochs): chunk_order = np.random.permutation(...)
LoopEpoch ==
    /\ loop_pc = "epochs"
    /\ IF loop_epoch < loop_epochs
       THEN /\ chunk_order' \in RowPermutations(Len(chunk_lens))
            /\ chunk_ndx' = 0
            /\ loop_pc' = "chunks"
       ELSE /\ loop_pc' = "return"
            /\ UNCHANGED <<chunk_order, chunk_ndx>>
    /\ UNCHANGED <<loop_epochs, max_batches, chunk_lens, loop_completed, loop_epoch,
                   loop_batch_idx, loop_n_batches, breakout, optimizer_steps, total_batches>>
    /\ UNCHANGED loopOthers

\* for chunk_ndx, chunk_id in enumerate(chunk_order): dataset = DataLoader(...)
LoopChunk ==
    /\ loop_pc = "chunks"
    /\ IF chunk_ndx < Len(chunk_lens)
       THEN /\ loop_batch_idx' = 0
            /\ loop_pc' = "batches"
       ELSE /\ loop_pc' = "epoch_end"
            /\ UNCHANGED loop_batch_idx
    /\ UNCHANGED <<loop_epochs, max_batches, chunk_lens, loop_completed, loop_epoch,
                   chunk_order, chunk_ndx, loop_n_batches, breakout, optimizer_steps,
                   total_batches>>
    /\ UNCHANGED loopOthers

\* for batch_idx, batch in enumerate(dataset): n_batches += 1, the step of the
\* optimizer, and the test of cfg.max_batches
LoopBatch ==
    /\ loop_pc = "batches"
    /\ IF loop_batch_idx < chunk_lens[chunk_order[chunk_ndx + 1]]
       THEN /\ loop_n_batches' = loop_n_batches + 1
            /\ optimizer_steps' = optimizer_steps + 1
            /\ IF ReachedMaxBatches(max_batches, loop_n_batches + 1)
               THEN /\ breakout' = TRUE
                    /\ loop_pc' = "chunk_end"
                    /\ UNCHANGED loop_batch_idx
               ELSE /\ loop_batch_idx' = loop_batch_idx + 1
                    /\ UNCHANGED <<breakout, loop_pc>>
       ELSE /\ loop_pc' = "chunk_end"
            /\ UNCHANGED <<loop_n_batches, optimizer_steps, breakout, loop_batch_idx>>
    /\ UNCHANGED <<loop_epochs, max_batches, chunk_lens, loop_completed, loop_epoch,
                   chunk_order, chunk_ndx, total_batches>>
    /\ UNCHANGED loopOthers

\* after the batches of a chunk: if breakout: break
LoopChunkEnd ==
    /\ loop_pc = "chunk_end"
    /\ IF breakout
       THEN /\ loop_pc' = "epoch_end"
            /\ UNCHANGED chunk_ndx
       ELSE /\ chunk_ndx' = chunk_ndx + 1
            /\ loop_pc' = "chunks"
    /\ UNCHANGED <<loop_epochs, max_batches, chunk_lens, loop_completed, loop_epoch,
                   chunk_order, loop_batch_idx, loop_n_batches, breakout, optimizer_steps,
                   total_batches>>
    /\ UNCHANGED loopOthers

\* after the chunks of an epoch: if breakout: break
LoopEpochEnd ==
    /\ loop_pc = "epoch_end"
    /\ IF breakout
       THEN /\ loop_pc' = "return"
            /\ UNCHANGED loop_epoch
       ELSE /\ loop_epoch' = loop_epoch + 1
            /\ loop_pc' = "epochs"
    /\ UNCHANGED <<loop_epochs, max_batches, chunk_lens, loop_completed, chunk_order,
                   chunk_ndx, loop_batch_idx, loop_n_batches, breakout, optimizer_steps,
                   total_batches>>
    /\ UNCHANGED loopOthers

\* total_batches = n_batches + completed_batches; return
LoopReturn ==
    /\ loop_pc = "return"
    /\ total_batches' = loop_n_batches + loop_completed
    /\ loop_pc' = "returned"
    /\ UNCHANGED <<loop_epochs, max_batches, chunk_lens, loop_completed, loop_epoch,
                   chunk_order, chunk_ndx, loop_batch_idx, loop_n_batches, breakout,
                   optimizer_steps>>
    /\ UNCHANGED loopOthers

-----------------------------------------------------------------------------
(* The hooks of resample_ablation_hook. The activations have one dimension, so
   a tensor of shape (batch, sequence, 1) is a sequence of integers over the
   positions and a dictionary is a sequence of one number per feature; codes
   are a sequence over the positions of sequences over the features. An
   argument that is None is written <<>>. *)

NoTensor == <<>>

\* a tied dictionary: the rows of the encoder, and a zero bias
HookLenses ==
    UNION {[encoder : [1 .. n -> {-1, 2}], encoder_bias : {[f \in 1 .. n |-> 0]}] :
           n \in 1 .. MaxHookFeatures}

\* row / torch.clamp(norm, 1e-8) of a row of one entry
UnitRow(x) == IF x > 0 THEN 1 ELSE IF x < 0 THEN -1 ELSE 0

\* lens.get_learned_dict()
LensDict(l) == [f \in DOMAIN l.encoder |-> UnitRow(l.encoder[f])]

\* lens.encode(tensor.reshape(-1, D))
LensEncode(l, tensor) ==
    [p \in DOMAIN tensor |->
        [f \in DOMAIN l.encoder |-> ClampMin0(l.encoder[f] * tensor[p] + l.encoder_bias[f])]]

RECURSIVE CodeTimesDict(_, _, _)
\* the sum over the features 1 .. n of code[f] * dict[f]
CodeTimesDict(code, dict, n) ==
    IF n = 0 THEN 0 ELSE code[n] * dict[n] + CodeTimesDict(code, dict, n - 1)

\* lens.decode(code): the codes times the dictionary
LensDecode(l, code) ==
    [p \in DOMAIN code |-> CodeTimesDict(code[p], LensDict(l), Len(LensDict(l)))]

\* torch.einsum("bd,nd->bn", tensor, lens.get_learned_dict())
Project(l, tensor) ==
    [p \in DOMAIN tensor |-> [f \in DOMAIN l.encoder |-> LensDict(l)[f] * tensor[p]]]

\* code[:, features_to_ablate] = 0.0, or the corrupted codes
ReplacedCode(code, features, corrupted) ==
    [p \in DOMAIN code |->
        [f \in DOMAIN code[p] |->
            IF f \in features
            THEN (IF corrupted = NoTensor THEN 0 ELSE corrupted[p][f])
            ELSE code[p][f]]]

\* ablation_code = zeros_like(code); ablation_code[:, features_to_ablate] =
\* -code[...], or corrupted_codes_[...] - code[...]
AblationCode(code, features, corrupted) ==
    [p \in DOMAIN code |->
        [f \in DOMAIN code[p] |->
            IF f \in features
            THEN (IF corrupted = NoTensor THEN 0 ELSE corrupted[p][f]) - code[p][f]
            ELSE 0]]

\* a + b over the positions; a handicap of None adds nothing
Plus(a, b) == IF b = NoTensor THEN a ELSE [p \in DOMAIN a |-> a[p] + b[p]]

\* if ablation_mask is not None: output[~ablation_mask] = tensor[~ablation_mask]
Masked(output, tensor, mask) ==
    IF mask = NoTensor THEN output
    ELSE [p \in DOMAIN output |-> IF mask[p] THEN output[p] ELSE tensor[p]]

\* reconstruction_intervention(tensor): the tensor returned
reconstruction_intervention(tensor) ==
    LET code == ReplacedCode(LensEncode(lens, tensor), features_to_ablate, corrupted_codes)
        reconstr == LensDecode(lens, code)
        output == Masked(Plus(reconstr, handicap), tensor, ablation_mask)
    IN  [output |-> output, returned |-> output]

\* partial_ablation_intervention(tensor)
partial_ablation_intervention(tensor) ==
    LET code == LensEncode(lens, tensor)
        ablation == LensDecode(lens, AblationCode(code, features_to_ablate, corrupted_codes))
        output == Masked(Plus(Plus(tensor, ablation), handicap), tensor, ablation_mask)
    IN  [output |-> output, returned |-> output]

\* full_ablation_intervention(tensor): the mask is applied to output, and
\* tensor + ablation is returned
full_ablation_intervention(tensor) ==
    LET code == Project(lens, tensor)
        ablation == LensDecode(lens, AblationCode(code, features_to_ablate, corrupted_codes))
        output == Masked(Plus(tensor, ablation), tensor, ablation_mask)
    IN  [output |-> output, returned |-> Plus(tensor, ablation)]

HookIdle ==
    /\ hook_pc = "off"
    /\ ablation_type = ""
    /\ ablation_rank = ""
    /\ lens = <<>>
    /\ features_to_ablate = {}
    /\ corrupted_codes = <<>>
    /\ handicap = <<>>
    /\ ablation_mask = <<>>
    /\ hook_tensor = <<>>
    /\ hook_returned = <<>>
    /\ activation_dict = <<>>

\* resample_ablation_hook(lens, features_to_ablate, corrupted_codes,
\* ablation_type, handicap, ablation_rank, ablation_mask) has returned a hook
\* for tensors of some number of positions
HookInit ==
    /\ hook_pc = "hooked"
    /\ ablation_type \in {"ablation", "reconstruction"}
    /\ ablation_rank \in {"full", "partial"}
    /\ lens \in HookLenses
    /\ features_to_ablate \in SUBSET (DOMAIN lens.encoder)
    /\ \E positions \in 1 .. MaxPositions :
          /\ corrupted_codes \in
                 {NoTensor, [p \in 1 .. positions |-> [f \in DOMAIN lens.encoder |-> 1]]}
          /\ handicap \in {NoTensor, [p \in 1 .. positions |-> 1]}
          /\ ablation_mask \in {NoTensor} \cup [1 .. positions -> BOOLEAN]
          /\ hook_tensor = [p \in 1 .. positions |-> 0]
    /\ hook_returned = <<>>
    /\ activation_dict = <<>>

\* the model calls a hook with the activation of the location
HookCalled(intervention) ==
    /\ hook_pc = "hooked"
    /\ \E tensor \in [DOMAIN hook_tensor -> {0, 1}] :
          /\ hook_tensor' = tensor
          /\ hook_returned' = intervention[tensor].returned
          /\ activation_dict' = intervention[tensor].output
    /\ hook_pc' = "returned"
    /\ UNCHANGED <<ablation_type, ablation_rank, lens, features_to_ablate, corrupted_codes,
                   handicap, ablation_mask>>
    /\ UNCHANGED hookOthers

\* ablation_func = reconstruction_intervention
HookReconstruction ==
    /\ ablation_type = "reconstruction"
    /\ HookCalled([tensor \in [DOMAIN hook_tensor -> {0, 1}] |->
                      reconstruction_intervention(tensor)])

\* ablation_func = partial_ablation_intervention
HookPartial ==
    /\ ablation_type = "ablation"
    /\ ablation_rank = "partial"
    /\ HookCalled([tensor \in [DOMAIN hook_tensor -> {0, 1}] |->
                      partial_ablation_intervention(tensor)])

\* ablation_func = full_ablation_intervention
HookFull ==
    /\ ablation_type = "ablation"
    /\ ablation_rank = "full"
    /\ HookCalled([tensor \in [DOMAIN hook_tensor -> {0, 1}] |->
                      full_ablation_intervention(tensor)])

-----------------------------------------------------------------------------
(* save_torch_models. The models of the grid are keyed by
   f"l1={l1_coef:.2E}_ds={dict_size}": the L1 coefficient in scientific
   notation with two decimals, and the dictionary size. *)

\* values of --l1_exp_base
StoreBases == {R(1, 1), R(2, 1), R(1001, 1000)}

\* base ** exp
RPower(base, exp) == IF exp >= 0 THEN RPow(base, exp) ELSE RPow(R(base.den, base.num), -exp)

\* 10 ** e
Pow10(e) == RPower(R(10, 1), e)

\* the decimal exponent of x > 0
Exp10(x) ==
    CHOOSE e \in -MaxExp10 .. MaxExp10 : RLe(Pow10(e), x) /\ RLt(x, Pow10(e + 1))

\* x rounded to an integer, halves to the even neighbour
RoundHalfEven(x) ==
    LET below == x.num \div x.den
        twice == 2 * (x.num - below * x.den)
    IN  IF twice > x.den \/ (twice = x.den /\ below % 2 = 1) THEN below + 1 ELSE below

\* f"{x:.2E}" for x > 0: the mantissa in hundredths and the exponent
FormatE(x) ==
    LET e == Exp10(x)
        hundredths == RoundHalfEven(RMul(RDiv(x, Pow10(e)), R(100, 1)))
    IN  IF hundredths = 1000 THEN <<100, e + 1>> ELSE <<hundredths, e>>

\* f"l1={l1_coef:.2E}_ds={dict_size}"
ModelKey(model) == <<FormatE(model.l1_coef), model.n_dict_components>>

\* models_dict[key] = value
SetItem(dict, key, value) ==
    {entry \in dict : entry.key # key} \cup {[key |-> key, value |-> value]}

StoreIdle ==
    /\ store_pc = "off"
    /\ store_l1_range = <<>>
    /\ store_dict_sizes = <<>>
    /\ store_models = <<>>
    /\ store_ndx = 0
    /\ models_dict = {}
    /\ saved_file = {}

\* run_real_data_model has built l1_range, dict_sizes and the grid
\* auto_encoders; save_torch_models(models, path): models_dict = {}
StoreInit ==
    /\ store_pc = "models"
    /\ \E base \in StoreBases, low \in {-1, 0}, n \in 1 .. MaxL1 :
          store_l1_range = [i \in 1 .. n |-> RPower(base, low + i - 1)]
    /\ \E activation_dim \in {1, 2}, low \in {0, 1}, m \in 1 .. MaxSizes :
          store_dict_sizes = [k \in 1 .. m |-> activation_dim * IntPow(2, low + k - 1)]
    /\ store_models =
          [i \in DOMAIN store_l1_range |->
              [k \in DOMAIN store_dict_sizes |->
                  [l1_coef |-> store_l1_range[i],
                   n_dict_components |-> store_dict_sizes[k],
                   state_dict |-> <<i, k>>]]]
    /\ store_ndx = 0
    /\ models_dict = {}
    /\ saved_file = {}

\* for l1_models in models: for model in l1_models: models_dict[key] = model.state_dict()
StoreEntry ==
    /\ store_pc = "models"
    /\ store_ndx < Len(store_l1_range) * Len(store_dict_sizes)
    /\ LET cell == Product(Len(store_l1_range), Len(store_dict_sizes))[store_ndx + 1]
           model == store_models[cell[1] + 1][cell[2] + 1]
       IN  models_dict' = SetItem(models_dict, ModelKey(model), model.state_dict)
    /\ store_ndx' = store_ndx + 1
    /\ UNCHANGED <<store_pc, store_l1_range, store_dict_sizes, store_models, saved_file>>
    /\ UNCHANGED storeOthers

\* torch.save(models_dict, path)
StoreSave ==
    /\ store_pc = "models"
    /\ store_ndx = Len(store_l1_range) * Len(store_dict_sizes)
    /\ saved_file' = models_dict
    /\ store_pc' = "saved"
    /\ UNCHANGED <<store_l1_range, store_dict_sizes, store_models, store_ndx, models_dict>>
    /\ UNCHANGED storeOthers

-----------------------------------------------------------------------------
(* The global step. A mini-run goes over the cells of the grid; each call of
   run_with_real_data starts from completed_batches = step_n and trains on
   the batches of the folder. The folder, cfg.epochs, cfg.batch_size and
   cfg.max_batches do not change between the cells of a mini-run, so every
   call of a mini-run trains on the same number of batches, steps_available.
   global_step[c] is the last value of completed_batches + n_batches of cell
   c, started_from[c] the set of the completed_batches of its call in this
   mini-run, empty before the call. *)

\* step_n left as it was
KeepStepN(old, total_batches_returned, is_last) == old

\* if l1_ndx == (len(l1_range) - 1) and dict_size_ndx == (len(dict_sizes) - 1):
\*     step_n = completed_batches
StepNAfterCell(old, total_batches_returned, is_last) ==
    IF is_last THEN total_batches_returned ELSE old

StepsIdle ==
    /\ steps_pc = "off"
    /\ steps_cells = 0
    /\ steps_mini_runs = 0
    /\ steps_mini_run = 0
    /\ steps_cell = 0
    /\ step_n = 0
    /\ steps_available = 0
    /\ call_completed_batches = 0
    /\ call_n_batches = 0
    /\ global_step = <<>>
    /\ started_from = <<>>

\* run_real_data_model before the loop over the mini-runs: step_n = 0
StepsInit ==
    /\ steps_pc = "mini_run"
    /\ steps_cells \in 1 .. MaxCells
    /\ steps_mini_runs \in 0 .. MaxMiniRuns
    /\ steps_mini_run = 0
    /\ steps_cell = 0
    /\ step_n = 0
    /\ steps_available = 0
    /\ call_completed_batches = 0
    /\ call_n_batches = 0
    /\ global_step = [c \in 1 .. steps_cells |-> 0]
    /\ started_from = [c \in 1 .. steps_cells |-> {}]

\* for mini_run in range(cfg.mini_runs), with the folder as it is now
StepsMiniRun ==
    /\ steps_pc = "mini_run"
    /\ IF steps_mini_run < steps_mini_runs
       THEN /\ steps_available' \in 0 .. MaxRunBatches
            /\ steps_cell' = 0
            /\ started_from' = [c \in 1 .. steps_cells |-> {}]
            /\ steps_pc' = "cells"
       ELSE /\ steps_pc' = "done"
            /\ UNCHANGED <<steps_available, steps_cell, started_from>>
    /\ UNCHANGED <<steps_cells, steps_mini_runs, steps_mini_run, step_n,
                   call_completed_batches, call_n_batches, global_step>>
    /\ UNCHANGED stepsOthers

\* run_with_real_data(cfg, auto_encoder, completed_batches=step_n): n_batches = 0
StepsCall ==
    /\ steps_pc = "cells"
    /\ steps_cell < steps_cells
    /\ call_completed_batches' = step_n
    /\ call_n_batches' = 0
    /\ started_from' = [started_from EXCEPT ![steps_cell + 1] = {step_n}]
    /\ steps_pc' = "training"
    /\ UNCHANGED <<steps_cells, steps_mini_runs, steps_mini_run, steps_cell, step_n,
                   steps_available, global_step>>
    /\ UNCHANGED stepsOthers

\* one batch of the call: n_batches += 1, and the step of the diagnostics and
\* of wandb.log is completed_batches + n_batches
StepsBatch ==
    /\ steps_pc = "training"
    /\ call_n_batches < steps_available
    /\ call_n_batches' = call_n_batches + 1
    /\ global_step' = [global_step EXCEPT
                          ![steps_cell + 1] = call_completed_batches + call_n_batches + 1]
    /\ UNCHANGED <<steps_pc, steps_cells, steps_mini_runs, steps_mini_run, steps_cell,
                   step_n, steps_available, call_completed_batches, started_from>>
    /\ UNCHANGED stepsOthers

\* total_batches = n_batches + completed_batches is returned, and step_n is
\* set after the last cell
StepsReturn ==
    /\ steps_pc = "training"
    /\ call_n_batches = steps_available
    /\ step_n' = StepNAfterCell(step_n, call_n_batches + call_completed_batches,
                                steps_cell = steps_cells - 1)
    /\ steps_cell' = steps_cell + 1
    /\ steps_pc' = "cells"
    /\ UNCHANGED <<steps_cells, steps_mini_runs, steps_mini_run, steps_available,
                   call_completed_batches, call_n_batches, global_step, started_from>>
    /\ UNCHANGED stepsOthers

\* the end of the loop over the cells of a mini-run
StepsEndMiniRun ==
    /\ steps_pc = "cells"
    /\ steps_cell = steps_cells
    /\ steps_mini_run' = steps_mini_run + 1
    /\ steps_pc' = "mini_run"
    /\ UNCHANGED <<steps_cells, steps_mini_runs, steps_cell, step_n, steps_available,
                   call_completed_batches, call_n_batches, global_step, started_from>>
    /\ UNCHANGED stepsOthers

\* the queue, the datasets, the shared generator, the dictionaries and the seeds at rest
ExtIdle == QueueIdle /\ DataIdle /\ SharedIdle /\ SaeIdle /\ SeedIdle /\ ChunkIdle /\ DeadIdle /\ KeysIdle /\ LoopIdle /\ HookIdle /\ StoreIdle /\ StepsIdle

\* the pipeline of src/run.py at rest
CoreIdle == GenIdle /\ TrainIdle /\ LargerIdle /\ MmcsIdle /\ SweepIdle

QueueExtIdle == DataIdle /\ SharedIdle /\ SaeIdle /\ SeedIdle /\ ChunkIdle /\ DeadIdle /\ KeysIdle /\ LoopIdle /\ HookIdle /\ StoreIdle /\ StepsIdle

QueueOthersIdle == CoreIdle /\ QueueExtIdle

DataExtIdle == QueueIdle /\ SharedIdle /\ SaeIdle /\ SeedIdle /\ ChunkIdle /\ DeadIdle /\ KeysIdle /\ LoopIdle /\ HookIdle /\ StoreIdle /\ StepsIdle

DataOthersIdle == CoreIdle /\ DataExtIdle

SharedExtIdle == QueueIdle /\ DataIdle /\ SaeIdle /\ SeedIdle /\ ChunkIdle /\ DeadIdle /\ KeysIdle /\ LoopIdle /\ HookIdle /\ StoreIdle /\ StepsIdle

SharedOthersIdle == CoreIdle /\ SharedExtIdle

SaeExtIdle == QueueIdle /\ DataIdle /\ SharedIdle /\ SeedIdle /\ ChunkIdle /\ DeadIdle /\ KeysIdle /\ LoopIdle /\ HookIdle /\ StoreIdle /\ StepsIdle

SaeOthersIdle == CoreIdle /\ SaeExtIdle

SeedExtIdle == QueueIdle /\ DataIdle /\ SharedIdle /\ SaeIdle /\ ChunkIdle /\ DeadIdle /\ KeysIdle /\ LoopIdle /\ HookIdle /\ StoreIdle /\ StepsIdle

SeedOthersIdle == CoreIdle /\ SeedExtIdle

ChunkExtIdle == QueueIdle /\ DataIdle /\ SharedIdle /\ SaeIdle /\ SeedIdle /\ DeadIdle /\ KeysIdle /\ LoopIdle /\ HookIdle /\ StoreIdle /\ StepsIdle

ChunkOthersIdle == CoreIdle /\ ChunkExtIdle

DeadExtIdle == QueueIdle /\ DataIdle /\ SharedIdle /\ SaeIdle /\ SeedIdle /\ ChunkIdle /\ KeysIdle /\ LoopIdle /\ HookIdle /\ StoreIdle /\ StepsIdle

DeadOthersIdle == CoreIdle /\ DeadExtIdle

KeysExtIdle == QueueIdle /\ DataIdle /\ SharedIdle /\ SaeIdle /\ SeedIdle /\ ChunkIdle /\ DeadIdle /\ LoopIdle /\ HookIdle /\ StoreIdle /\ StepsIdle

KeysOthersIdle == CoreIdle /\ KeysExtIdle

LoopExtIdle == QueueIdle /\ DataIdle /\ SharedIdle /\ SaeIdle /\ SeedIdle /\ ChunkIdle /\ DeadIdle /\ KeysIdle /\ HookIdle /\ StoreIdle /\ StepsIdle

LoopOthersIdle == CoreIdle /\ LoopExtIdle

HookExtIdle == QueueIdle /\ DataIdle /\ SharedIdle /\ SaeIdle /\ SeedIdle /\ ChunkIdle /\ DeadIdle /\ KeysIdle /\ LoopIdle /\ StoreIdle /\ StepsIdle

HookOthersIdle == CoreIdle /\ HookExtIdle

StoreExtIdle == QueueIdle /\ DataIdle /\ SharedIdle /\ SaeIdle /\ SeedIdle /\ ChunkIdle /\ DeadIdle /\ KeysIdle /\ LoopIdle /\ HookIdle /\ StepsIdle

StoreOthersIdle == CoreIdle /\ StoreExtIdle

StepsExtIdle == QueueIdle /\ DataIdle /\ SharedIdle /\ SaeIdle /\ SeedIdle /\ ChunkIdle /\ DeadIdle /\ KeysIdle /\ LoopIdle /\ HookIdle /\ StoreIdle

StepsOthersIdle == CoreIdle /\ StepsExtIdle

-----------------------------------------------------------------------------
(* The specifications *)

GenNext ==
    \/ generate_rand_dataset
    \/ generate_correlated_dataset

InitGen == GenInit /\ TrainIdle /\ LargerIdle /\ MmcsIdle /\ SweepIdle /\ ExtIdle

SpecGen == InitGen /\ [][GenNext]_vars

TrainNext ==
    \/ SingleGoStep
    \/ SingleGoReturn
    \/ RealDataStep
    \/ RealDataReturn

InitTrain == TrainInit /\ GenIdle /\ LargerIdle /\ MmcsIdle /\ SweepIdle /\ ExtIdle

SpecTrain == InitTrain /\ [][TrainNext]_vars

LargerNext ==
    \/ LargerSkipLast
    \/ LargerCompare
    \/ LargerReturn

InitLarger == LargerInit /\ GenIdle /\ TrainIdle /\ MmcsIdle /\ SweepIdle /\ ExtIdle

SpecLarger == InitLarger /\ [][LargerNext]_vars

MmcsNext ==
    \/ ScoreLearned
    \/ PermuteRows
    \/ ScorePermuted

InitMmcs == MmcsInit /\ GenIdle /\ TrainIdle /\ LargerIdle /\ SweepIdle /\ ExtIdle

SpecMmcs == InitMmcs /\ [][MmcsNext]_vars

SweepNext ==
    \/ ToyTrainCell
    \/ ToyTrainCellFails
    \/ ToyFinish
    \/ RealTrainCell
    \/ RealTrainCellFails
    \/ RealEndMiniRun

InitSweep == SweepInit /\ GenIdle /\ TrainIdle /\ LargerIdle /\ MmcsIdle /\ ExtIdle

SpecSweep == InitSweep /\ [][SweepNext]_vars

LoadNext ==
    \/ LoadAutoencoder
    \/ LoadDone
    \/ RealTrainCell
    \/ RealEndMiniRun

InitLoad == LoadInit /\ GenIdle /\ TrainIdle /\ LargerIdle /\ MmcsIdle /\ ExtIdle

SpecLoad == InitLoad /\ [][LoadNext]_vars

QueueNext ==
    \/ QueuePut
    \/ QueueFeed
    \/ \E w \in Workers : StartWorker(w)
    \/ \E w \in Workers : WorkerCheck(w)
    \/ \E w \in Workers : WorkerGet(w)
    \/ \E w \in Workers : WorkerRun(w)
    \/ JoinWorkers

InitQueue == QueueInit /\ QueueOthersIdle

SpecQueue == InitQueue /\ [][QueueNext]_vars

DataNext ==
    \/ DataSetup
    \/ DataTrain
    \/ DataRefresh

InitData == DataInit /\ DataOthersIdle

SpecData == InitData /\ [][DataNext]_vars

SharedNext ==
    \/ SharedMakeGenerator
    \/ CellBegin
    \/ CellEpoch
    \/ CellEnd

InitShared ==
    SharedInit /\ TrainIdle /\ LargerIdle /\ MmcsIdle /\ SweepIdle /\ SharedExtIdle

SpecShared == InitShared /\ [][SharedNext]_vars

SaeNext ==
    \/ CallGetLearnedDict
    \/ CallEncode
    \/ CallForward
    \/ \E device \in Devices : CallToDevice(device)
    \/ CallerMovesBatch

InitSae == SaeInit /\ SaeOthersIdle

SpecSae == InitSae /\ [][SaeNext]_vars

SeedNext ==
    \/ \E r \in Run : MainSeeds(r)
    \/ \E r \in Run : MakeGenerator(r)
    \/ \E r \in Run : SendBatch(r)

InitSeed ==
    SeedInit /\ TrainIdle /\ LargerIdle /\ MmcsIdle /\ SweepIdle /\ SeedExtIdle

SpecSeed == InitSeed /\ [][SeedNext]_vars

ChunkNext ==
    \/ ChunkBatch
    \/ ChunkLoopEnds
    \/ ChunkSaveRest

InitChunk == ChunkInit /\ ChunkOthersIdle

SpecChunk == InitChunk /\ [][ChunkNext]_vars

DeadNext ==
    \/ DeadTrainBegin
    \/ DeadTrainBatch
    \/ DeadTrainReturn
    \/ DeadSample

InitDead == DeadInit /\ DeadOthersIdle

SpecDead == InitDead /\ [][DeadNext]_vars

KeysNext ==
    \/ KeysParseArgs
    \/ KeysGetattr
    \/ KeysGetattrRaises
    \/ KeysSetattr

InitKeys == KeysInit /\ KeysOthersIdle

SpecKeys == InitKeys /\ [][KeysNext]_vars


LoopNext ==
    \/ LoopEpoch
    \/ LoopChunk
    \/ LoopBatch
    \/ LoopChunkEnd
    \/ LoopEpochEnd
    \/ LoopReturn

InitLoop == LoopInit /\ LoopOthersIdle

SpecLoop == InitLoop /\ [][LoopNext]_vars

\* the interpreter goes on executing the call
SpecLoopFair == SpecLoop /\ WF_vars(LoopNext)


HookNext ==
    \/ HookReconstruction
    \/ HookPartial
    \/ HookFull

InitHook == HookInit /\ HookOthersIdle

SpecHook == InitHook /\ [][HookNext]_vars


StoreNext ==
    \/ StoreEntry
    \/ StoreSave

InitStore == StoreInit /\ StoreOthersIdle

SpecStore == InitStore /\ [][StoreNext]_vars


StepsNext ==
    \/ StepsMiniRun
    \/ StepsCall
    \/ StepsBatch
    \/ StepsReturn
    \/ StepsEndMiniRun

InitSteps == StepsInit /\ StepsOthersIdle

SpecSteps == InitSteps /\ [][StepsNext]_vars


-----------------------------------------------------------------------------
(* The claims *)

UnitNorm(dec) == \A k \in DOMAIN dec : NormSq(dec[k]) = UnitLen * UnitLen

\* C1: every row of the sparse code a batch is built from has at least one
\* nonzero entry, in independent mode as well as in correlated mode
C1_EveryRowHasNonzero ==
    gen_pc = "sent" =>
        \A r \in DOMAIN dataset_codes : CountNonzero(dataset_codes, r) >= 1

\* C9: every value used as a threshold of the uniform draw in correlated mode
\* lies in [0,1]
C9_ThresholdsInUnitInterval ==
    (gen_pc = "sent" /\ correlated) =>
        \A i \in DOMAIN component_probs :
            RLe(R(0, 1), component_probs[i]) /\ RLe(component_probs[i], R(1, 1))

\* C2: right after every optimizer step every dictionary vector of the decoder
\* has unit norm, and so have the decoder read for the diagnostics, the
\* snapshots old_dict and new_dict, and the decoder returned
C2_UnitNormAfterEveryStep ==
    /\ (train_pc = "loop" /\ n_batches >= 1) => UnitNorm(decoder)
    /\ train_pc = "returned" => UnitNorm(decoder)
    /\ UnitNorm(old_dict)
    /\ UnitNorm(new_dict)
    /\ UnitNorm(learned_dictionary)

\* the position in the product of the last iteration that compared
LastCompared ==
    CHOOSE q \in 0 .. (loop_ndx - 1) :
        /\ q % n_dict_sizes # n_dict_sizes - 1
        /\ \A q2 \in (q + 1) .. (loop_ndx - 1) : q2 % n_dict_sizes = n_dict_sizes - 1

Distinct(s) == \A p, q \in DOMAIN s : p # q => s[p] # s[q]

\* C3: the matching of a compared pair has exactly min(smaller feature count,
\* larger feature count) pairs, and no feature of the smaller and none of the
\* larger dictionary occurs in two pairs
C3_MatchingIsOneToOne ==
    row_ind # <<>> =>
        /\ Len(row_ind) = Min(Len(smaller_dict), Len(larger_dict_clone))
        /\ Len(col_ind) = Len(row_ind)
        /\ \A p \in DOMAIN row_ind : row_ind[p] \in DOMAIN smaller_dict
        /\ \A p \in DOMAIN col_ind : col_ind[p] \in DOMAIN larger_dict_clone
        /\ Distinct(row_ind)
        /\ Distinct(col_ind)

\* C3: a pair was compared whose smaller dictionary has fewer features, two
\* of them nearest to the same feature of the larger one
C3_Witness ==
    /\ row_ind # <<>>
    /\ Len(smaller_dict) < Len(larger_dict_clone)
    /\ \E p, q \in DOMAIN smaller_dict : \E c \in DOMAIN larger_dict_clone :
          /\ p # q
          /\ \A d \in DOMAIN larger_dict_clone :
                /\ RLe(cosine_similarity(smaller_dict[p], larger_dict_clone[d]),
                       cosine_similarity(smaller_dict[p], larger_dict_clone[c]))
                /\ RLe(cosine_similarity(smaller_dict[q], larger_dict_clone[d]),
                       cosine_similarity(smaller_dict[q], larger_dict_clone[c]))

\* C4: the matching selected has the largest total similarity of all
\* one-to-one matchings, and the mean reported for the slot is the mean
\* similarity of exactly the matched pairs
C4_MatchingMaximizesSimilarity ==
    row_ind # <<>> =>
        LET cs == CosSims(smaller_dict, larger_dict_clone)
            matched == Picked(cs, row_ind, col_ind)
            i == LastCompared \div n_dict_sizes
            k == LastCompared % n_dict_sizes
        IN  /\ \A b \in Assignments(Len(smaller_dict), Len(larger_dict_clone)) :
                  RLe(RSum(Picked(cs, b[1], b[2])), RSum(matched))
            /\ \A p \in DOMAIN matched : REq(max_cosine_similarities[p], matched[p])
            /\ REq(RMul(av_mmcs_with_larger_dicts[i + 1][k + 1], R(Len(matched), 1)),
                   RSum(matched))

\* C4: a pair was compared for which the one-to-one matchings differ in
\* their total similarity
C4_Witness ==
    /\ row_ind # <<>>
    /\ LET cs == CosSims(smaller_dict, larger_dict_clone) IN
       \E b \in Assignments(Len(smaller_dict), Len(larger_dict_clone)) :
          RLt(RSum(Picked(cs, b[1], b[2])), RSum(max_cosine_similarities))

\* the slots of the result that were compared
ComparedSlots ==
    {s \in (1 .. n_l1_coefs) \X (1 .. n_dict_sizes) : s[2] # n_dict_sizes}

\* C5: the percentage written to feats_above_threshold is the fraction of the
\* matched pairs whose similarity exceeds the threshold the caller gave
C5_PercentUsesCallerThreshold ==
    larger_pc = "returned" =>
        \A s \in ComparedSlots :
            LET sims == full_max_cosine_sim_for_histograms[s[1]][s[2]]
                above == {p \in DOMAIN sims : RLt(cfg_threshold, sims[p])}
            IN  REq(feats_above_threshold[s[1]][s[2]],
                    R(100 * Cardinality(above), Len(sims)))

Reports(smaller, larger) ==
    LET cost == ToCost(CosSims(smaller, larger)) IN
    {LET sims == FromCost(Picked(cost, a[1], a[2])) IN
        <<Mean(sims), PercentAbove(sims, R(9, 10), Len(smaller))>>
     : a \in linear_sum_assignment(cost)}

C8_PermutationInvariant ==
    mmcs_pc = "rescored" => mmcs = first_mmcs

\* C8: a dictionary was scored again with its rows in another order, and the
\* rows are not equally similar to the ground truth
C8_Witness ==
    /\ mmcs_pc = "rescored"
    /\ learned_rows # first_rows
    /\ LET cs == cosine_sim(ground_truth_features, learned_rows) IN
       \E g \in DOMAIN cs : \E p, q \in DOMAIN cs[g] : RLt(cs[g][p], cs[g][q])

\* the entries of the log for one cell of one pass
TrainedAt(pass, i, k) ==
    {p \in DOMAIN trained :
        /\ trained[p].mini_run = pass
        /\ trained[p].l1_ndx = i
        /\ trained[p].dict_size_ndx = k}

\* the cells trained are the product of the two index ranges, each cell at
\* most once per pass and exactly once when the run is over
CellsAreTheProduct ==
    /\ \A p \in DOMAIN trained :
          /\ trained[p].mini_run \in 0 .. (mini_runs - 1)
          /\ trained[p].l1_ndx \in 0 .. (l1_exp_high - l1_exp_low - 1)
          /\ trained[p].dict_size_ndx \in 0 .. (dict_ratio_exp_high - dict_ratio_exp_low - 1)
    /\ \A pass \in 0 .. (mini_runs - 1) :
          \A i \in 0 .. (l1_exp_high - l1_exp_low - 1) :
              \A k \in 0 .. (dict_ratio_exp_high - dict_ratio_exp_low - 1) :
                  /\ Cardinality(TrainedAt(pass, i, k)) <= 1
                  /\ sweep_pc = "done" => Cardinality(TrainedAt(pass, i, k)) = 1

\* the L1 coefficient of every trained cell is l1_exp_base^(l1_exp_low + i)
L1AsClaimed ==
    \A p \in DOMAIN trained :
        REq(trained[p].l1_alpha, Power(l1_exp_base, l1_exp_low + trained[p].l1_ndx))

\* C10 as stated: the cells trained are the product, and in both drivers the
\* dictionary size of column j is activation_dim * dict_ratio_exp_base^(low + j)
C10_GridAsStated ==
    /\ CellsAreTheProduct
    /\ L1AsClaimed
    /\ \A p \in DOMAIN trained :
          REq(R(trained[p].n_components_dictionary, 1),
              RMul(R(cfg_activation_dim, 1),
                   Power(dict_ratio_exp_base, dict_ratio_exp_low + trained[p].dict_size_ndx)))

\* C10 as amended: the cells trained are the product, and the dictionary size
\* of column j is the integer part of activation_dim * base^(low + j) in
\* run_real_data_model and of n_ground_truth_components * base^(low + j) in
\* run_toy_model
C10_GridAmended ==
    /\ CellsAreTheProduct
    /\ L1AsClaimed
    /\ \A p \in DOMAIN trained :
          LET scale == IF run_toy THEN cfg_n_ground_truth_components ELSE cfg_activation_dim
              ratio == Power(dict_ratio_exp_base, dict_ratio_exp_low + trained[p].dict_size_ndx)
              exact == RMul(R(scale, 1), ratio)
              size == trained[p].n_components_dictionary
          IN  /\ RLe(R(size, 1), exact)
              /\ RLt(exact, R(size + 1, 1))

\* C10: a toy sweep over a grid of at least two by two cells has ended, the
\* number of ground-truth components differs from activation_dim, and the
\* size of a cell was truncated
C10_Witness ==
    /\ sweep_pc = "done"
    /\ run_toy
    /\ l1_exp_high - l1_exp_low >= 2
    /\ dict_ratio_exp_high - dict_ratio_exp_low >= 2
    /\ cfg_n_ground_truth_components # cfg_activation_dim
    /\ \E p \in DOMAIN trained :
          RLt(R(trained[p].n_components_dictionary, 1),
              RMul(R(cfg_n_ground_truth_components, 1),
                   Power(dict_ratio_exp_base, dict_ratio_exp_low + trained[p].dict_size_ndx)))

\* the files that hold a result of the comparison with larger dictionaries
ComparisonFiles == ToyCompareFiles \cup RealCompareFiles \cup RealComparePlots

\* C13: with a single dictionary size neither driver runs the comparison with
\* larger dictionaries: a log line says it was skipped and no comparison
\* result is computed or written, in a mini-run or at the end
C13_OneSizeSkipsComparison ==
    (sweep_pc \in {"cells", "done"} /\ Len(dict_ratios) = 1) =>
        /\ compare_calls = 0
        /\ written \cap ComparisonFiles = {}
        /\ sweep_pc = "done" => <<"Skipping the comparison with larger dicts">> \in printed

\* the cells of the grid trained in a pass
TrainedCells(pass) ==
    {<<trained[p].l1_ndx, trained[p].dict_size_ndx>> :
        p \in {q \in DOMAIN trained : trained[q].mini_run = pass}}

\* C14: when the training of a cell fails for lack of memory, the driver logs
\* the cell and trains every remaining cell of the grid, and the results of
\* the sweep are written
C14_FailedCellDoesNotStopSweep ==
    (failed_cell # <<>> /\ sweep_pc \in {"done", "aborted"}) =>
        /\ <<"Training failed in cell", failed_cell>> \in printed
        /\ \A pass \in 0 .. (mini_runs - 1) : \A c \in 1 .. Len(GridCells) :
              GridCells[c] # failed_cell => GridCells[c] \in TrainedCells(pass)
        /\ (IF run_toy THEN ToyFiles ELSE RealFiles) \subseteq written

\* C16: in run_real_data_model the model trained for cell (i,j) in a mini-run
\* is the one made for that cell, and it enters mini-run m+1 with the
\* parameters it had at the end of mini-run m, saved in between or not
C16_ModelKeptAcrossMiniRuns ==
    ~run_toy =>
        /\ \A p \in DOMAIN trained :
              /\ trained[p].model_id = <<trained[p].l1_ndx, trained[p].dict_size_ndx>>
              /\ trained[p].mini_run > 0 =>
                    \E q \in 1 .. (p - 1) :
                        /\ trained[q].mini_run = trained[p].mini_run - 1
                        /\ trained[q].l1_ndx = trained[p].l1_ndx
                        /\ trained[q].dict_size_ndx = trained[p].dict_size_ndx
                        /\ trained[q].params_out = trained[p].params_in
        /\ \A m \in DOMAIN saved_models : \A q \in DOMAIN trained :
              trained[q].mini_run = m - 1 =>
                  saved_models[m][trained[q].l1_ndx + 1][trained[q].dict_size_ndx + 1].params
                      = trained[q].params_out

\* C16: a run of several mini-runs over several cells, saved after every
\* mini-run, has ended
C16_Witness ==
    /\ ~run_toy
    /\ sweep_pc = "done"
    /\ save_after_mini
    /\ mini_runs >= 2
    /\ Len(GridCells) >= 2
    /\ \E p \in DOMAIN trained : Len(trained[p].params_in) = mini_runs

\* the saved models looked at so far
Looked == {loaded_autoencoders[n] : n \in 1 .. load_ndx}

\* the saved model has the L1 coefficient of row i and the size of column k
MatchesCell(ae, i, k) == REq(ae.l1_coef, l1_range[i]) /\ ae.dict_size = dict_sizes[k]

\* the lines printed about a saved model
Reported(ae) ==
    \/ <<"Unable to match autoencoder", ae.l1_coef, ae.dict_size>> \in printed
    \/ <<"Mismatch of activation size", cfg_activation_dim, ae.activation_size>> \in printed

\* C11: a saved model stands in cell (i,j) only if its L1 coefficient is
\* l1_range[i] and its dictionary size is dict_sizes[j]; a saved model that
\* matches no cell is reported and dropped and the run goes on; a cell that
\* no saved model matches is trained from a freshly initialised model
C11_LoadedOnlyOnExactMatch ==
    /\ sweep_pc # "aborted"
    /\ \A i \in DOMAIN auto_encoders : \A k \in DOMAIN auto_encoders[i] :
          LET model == auto_encoders[i][k] IN
          /\ model.origin = "saved" =>
                /\ \E ae \in Looked : ae.id = model.id /\ ae.activation_size = cfg_activation_dim
                /\ MatchesCell(model, i, k)
          /\ model.origin # "saved" => (model.origin = "fresh" /\ model.id = <<i - 1, k - 1>>)
          /\ (\A ae \in Looked : ~MatchesCell(ae, i, k)) => model.origin = "fresh"
    /\ \A ae \in Looked :
          (\A i \in DOMAIN l1_range : \A k \in DOMAIN dict_sizes : ~MatchesCell(ae, i, k)) =>
              /\ Reported(ae)
              /\ \A i \in DOMAIN auto_encoders : \A k \in DOMAIN auto_encoders[i] :
                    auto_encoders[i][k].id # ae.id
    /\ \A p \in DOMAIN trained :
          (\A ae \in Looked : ~MatchesCell(ae, trained[p].l1_ndx + 1, trained[p].dict_size_ndx + 1)) =>
              /\ trained[p].model_id = <<trained[p].l1_ndx, trained[p].dict_size_ndx>>
              /\ trained[p].params_in = <<0>>

\* C11: a run has ended in which a saved model was loaded into a cell other
\* than the first, another matched no cell, and a cell was trained from a
\* fresh model
C11_Witness ==
    /\ sweep_pc = "done"
    /\ \E i \in DOMAIN auto_encoders : \E k \in DOMAIN auto_encoders[i] :
          auto_encoders[i][k].origin = "saved" /\ <<i, k>> # <<1, 1>>
    /\ \E ae \in Looked :
          \A i \in DOMAIN l1_range : \A k \in DOMAIN dict_sizes : ~MatchesCell(ae, i, k)
    /\ \E p \in DOMAIN trained : trained[p].params_in = <<0>>

\* C12: once a saved model of another activation size has been met the run
\* has stopped with an error, and no cell is trained
C12_DimensionMismatchStopsRun ==
    (\E ae \in Looked : ae.activation_size # cfg_activation_dim) =>
        /\ sweep_pc = "aborted"
        /\ trained = <<>>

\* C15: every job put on the queue is run to its end by exactly one worker,
\* whatever the interleaving: no job is run twice, and when the workers have
\* exited no job is left
C15_EveryJobRunOnce ==
    /\ \A j \in DOMAIN run_count : run_count[j] <= 1
    /\ (queue_pc \in {"joining", "joined"} /\ \A w \in Workers : worker_pc[w] = "exited") =>
          \A j \in DOMAIN run_count : run_count[j] = 1

\* the source lines of the datasets made before the n-th one
LinesBefore(n) == UNION {sentence_datasets[m].lines : m \in 1 .. (n - 1)}

\* C17: with data refresh the dataset of a mini-run holds no source line of
\* the dataset of an earlier mini-run: every refreshed dataset starts just
\* past all the lines consumed so far, whatever the dataset name
C17_RefreshReadsNewLines ==
    refresh_data =>
        \A n \in 2 .. Len(sentence_datasets) :
            /\ sentence_datasets[n].lines \cap LinesBefore(n) = {}
            /\ \A line \in LinesBefore(n) : line < sentence_datasets[n].start_line
            /\ \A line \in sentence_datasets[n].lines :
                   line >= sentence_datasets[n].start_line

\* C18: run_toy_model passes the one generator it made to every cell, and no
\* batch drawn and no training changes the feature bank, the decay, the
\* component probabilities or the correlation matrix of that generator
C18_GeneratorSharedAndUnchanged ==
    data_generator # 0 =>
        /\ \A c \in DOMAIN cell_generators : cell_generators[c] = data_generator
        /\ GeneratorState(tensors, generators[data_generator]) = constructed

\* two cells have drawn batches from the generator and were trained
C18_Witness ==
    /\ shared_pc = "done"
    /\ Len(cell_generators) >= 2
    /\ correlated
    /\ tensors[Len(tensors)] = epochs

\* C19: get_learned_dict, encode and forward of UntiedSAE and TiedSAE leave
\* the stored encoder, decoder and bias and the batch of the caller as they
\* were; the object refers to other tensors only after a call of to_device,
\* and these hold the same values
C19_ReadsLeaveTensorsUnchanged ==
    sae_pc = "made" =>
        LET now == SaeState(sae_tensors, sae, caller_batch) IN
        /\ now.encoder = sae_made.encoder
        /\ now.decoder = sae_made.decoder
        /\ now.encoder_bias = sae_made.encoder_bias
        /\ sae_tensors[sae_made.batch_ref] = sae_made.batch
        /\ to_device_calls = 0 => now = sae_made

\* the three reading methods were called in a row on a dictionary whose
\* rows are not of unit norm
C19_Witness ==
    /\ sae_pc = "made"
    /\ sae_calls = 3
    /\ to_device_calls = 0
    /\ sae_result # <<>>
    /\ sae_result.call = "forward"
    /\ sae_made.encoder = <<<<2, 0>>, <<0, -1>>>>
    /\ sae_result.value # sae_made.batch.value

\* C20: two runs with the same seed that make the same calls get the same
\* feature bank and, call by call, the same sparse codes and the same batch
\* from generate_rand_dataset and generate_correlated_dataset
C20_SameSeedSameOutputs ==
    seed_device # "" =>
        /\ (runs[1].pc \notin {"start", "seeded"} /\ runs[2].pc \notin {"start", "seeded"}) =>
               runs[1].feats = runs[2].feats
        /\ \A k \in DOMAIN runs[1].outputs \cap DOMAIN runs[2].outputs :
               runs[1].outputs[k] = runs[2].outputs[k]

\* both runs are over, they started from different generator states, and a
\* row without a component was given one
C20_Witness ==
    /\ seed_device # ""
    /\ runs[1].pc = "done"
    /\ runs[2].pc = "done"
    /\ runs[1].entropy # runs[2].entropy
    /\ correlated
    /\ Len(runs[1].outputs) >= 2
    /\ \E k \in DOMAIN runs[1].outputs : runs[1].outputs[k].forced

\* the places of the chunk files that hold batch b
PlacesOf(b) ==
    UNION {{<<f.name, i>> : i \in {j \in DOMAIN f.batches : f.batches[j] = b}} :
              f \in chunk_files}

\* the chunk files are numbered 0 .. k - 1, every chunk holds a row, and
\* every batch that was processed is in exactly one chunk
ChunksWellFormed ==
    LET k == Cardinality(chunk_files) IN
    /\ {f.name : f \in chunk_files} = 0 .. (k - 1)
    /\ \A f \in chunk_files : f.batches # <<>>
    /\ \A b \in 1 .. batch_idx : Cardinality(PlacesOf(b)) = 1

\* C21 as stated: after make_activation_dataset returns the chunk files are
\* 0 .. k - 1 with 1 <= k <= cfg.n_chunks, every chunk holds a row and every
\* processed batch is in exactly one chunk
C21_ChunksAsStated ==
    chunk_pc = "returned" =>
        /\ ChunksWellFormed
        /\ Cardinality(chunk_files) >= 1
        /\ Cardinality(chunk_files) <= n_chunks

\* C21, amended: the same for a positive cfg.n_chunks
C21_ChunksWithPositiveLimit ==
    (chunk_pc = "returned" /\ n_chunks >= 1) =>
        /\ ChunksWellFormed
        /\ Cardinality(chunk_files) >= 1
        /\ Cardinality(chunk_files) <= n_chunks

\* a return after a full chunk and an undersized one
C21_Witness ==
    /\ chunk_pc = "returned"
    /\ n_chunks >= 2
    /\ Cardinality(chunk_files) = 2
    /\ \E f \in chunk_files : Len(f.batches) = 2
    /\ \E f \in chunk_files : Len(f.batches) = 1

\* C22: every dead-feature count recorded for a cell, the entry of
\* dead_features_matrix, the count of each batch and the value of
\* get_n_dead_features, is between 0 and the dictionary size of the cell
C22_DeadCountWithinDictionary ==
    dead_pc # "off" =>
        /\ dead_features_entry \in 0 .. dict_features
        /\ \A b \in DOMAIN running_dead_features :
               running_dead_features[b] \in 0 .. dict_features
        /\ n_dead_features \in 0 .. dict_features

\* the second mini-run of a cell has returned with a dead feature, after
\* batches of two rows
C22_Witness ==
    /\ dead_pc = "cell"
    /\ dead_calls = 2
    /\ dict_features = 2
    /\ dead_features_entry = 1
    /\ running_dead_features = <<2, 1>>

\* the features whose mean over the sampled rows is zero
DeadOverSample ==
    {f \in 1 .. dict_features : \A b \in DOMAIN sampled : \A r \in DOMAIN sampled[b] :
        sampled[b][r][f] = 0}

\* C25: get_n_dead_features returns the number of the features whose mean
\* activation over the sampled batches is exactly zero, for a DataLoader and
\* for the RandomDatasetGenerator of run_single_go
C25_CountsFeaturesWithZeroMean ==
    dead_pc = "sampled" => n_dead_features = Cardinality(DeadOverSample)

\* C28: when a call of run_with_real_data that processed a batch returns, the
\* recorded count is the number of the features whose batch mean was zero in
\* every batch of the call
C28_DeadIffZeroInEveryBatch ==
    (dead_pc = "cell" /\ dead_calls >= 1 /\ dead_n_batches >= 1) =>
        dead_features_entry = dict_features - Cardinality(active_features)

\* a call has returned in which a feature was active in the first batch only
C28_Witness ==
    /\ dead_pc = "cell"
    /\ dead_n_batches = 2
    /\ dict_features = 2
    /\ running_dead_features = <<1, 2>>
    /\ dead_features_entry = 1

\* C23: every key of cfg the sweep drivers read is defined by parse_args or
\* assigned by the driver before the read: no read raises AttributeError
C23_NoAttributeError == keys_pc # "AttributeError"

\* the batches of all the chunks over all the epochs
AvailableBatches == loop_epochs * SeqSum(chunk_lens)

\* the calls of optimizer.step() the limit allows
ExpectedSteps ==
    IF max_batches > 0 THEN Min(max_batches, AvailableBatches) ELSE AvailableBatches

\* C24: a call of run_with_real_data leaves its three loops and returns; it
\* has then made min(max_batches, available batches) steps of the optimizer
\* when max_batches > 0 and one step for every batch when max_batches = 0,
\* and the total_batches it returns is completed_batches plus the steps
C24_StepsAndTermination ==
    /\ [](loop_pc = "returned" =>
              /\ optimizer_steps = ExpectedSteps
              /\ total_batches = loop_completed + optimizer_steps)
    /\ (loop_pc # "off" => <>(loop_pc = "returned"))

\* a call has returned that was stopped by max_batches in the second chunk of
\* the first of two epochs
C24_Witness ==
    /\ loop_pc = "returned"
    /\ breakout
    /\ max_batches = 3
    /\ loop_epochs = 2
    /\ loop_epoch = 0
    /\ chunk_ndx = 1
    /\ optimizer_steps = 3
    /\ loop_completed = 1
    /\ total_batches = 4

\* C26: with several workers every worker terminates and the joins of
\* interpret_across_baselines return, whatever the interleaving: no worker
\* waits for ever in get() after another worker took the last job
C26_NoWorkerBlockedInGet ==
    \A w \in Workers :
        ~(/\ worker_pc[w] = "get"
          /\ n_put = n_jobs
          /\ queue_buffer = <<>>
          /\ queue_pipe = <<>>
          /\ \A v \in Workers : worker_pc[v] \notin {"created", "run"})

\* C27: in each of the three ablation modes, when an ablation_mask is given,
\* the tensor the hook returns to the model equals the original activation at
\* every position where the mask is False
C27_MaskedPositionsKeepActivation ==
    (hook_pc = "returned" /\ ablation_mask # NoTensor) =>
        \A p \in DOMAIN hook_tensor : ~ablation_mask[p] => hook_returned[p] = hook_tensor[p]

\* the cells of the grid save_torch_models goes over
StoreCells == (DOMAIN store_l1_range) \X (DOMAIN store_dict_sizes)

\* two cells whose L1 coefficient or dictionary size differ
DifferentCells(c, d) ==
    \/ ~REq(store_l1_range[c[1]], store_l1_range[d[1]])
    \/ store_dict_sizes[c[2]] # store_dict_sizes[d[2]]

\* C29: save_torch_models writes one entry for every model of the grid: two
\* cells with different (L1 coefficient, dictionary size) never get the same
\* key, so the file holds the state of each of them
C29_OneEntryPerModel ==
    store_pc = "saved" =>
        /\ \A c, d \in StoreCells :
               DifferentCells(c, d) =>
                   ModelKey(store_models[c[1]][c[2]]) # ModelKey(store_models[d[1]][d[2]])
        /\ \A c \in StoreCells :
               \E entry \in saved_file :
                   \E d \in StoreCells :
                       /\ entry.value = store_models[d[1]][d[2]].state_dict
                       /\ ~DifferentCells(c, d)

\* the cells of a mini-run that have been called start from the same
\* completed_batches
SameStart ==
    \A c, d \in DOMAIN started_from :
        Cardinality(started_from[c] \cup started_from[d]) <= 1

\* a training step of a cell has a larger global step than its last one
StepIncreases ==
    \A c \in DOMAIN global_step :
        global_step'[c] # global_step[c] => global_step'[c] > global_step[c]

\* C30: over all the mini-runs the global step completed_batches + n_batches
\* of a cell strictly increases from one training step of the cell to the
\* next, also from one mini-run to the next, and all the cells of a mini-run
\* start from the same completed_batches
C30_GlobalStepIncreases ==
    /\ [](steps_pc # "off" => SameStart)
    /\ [][StepIncreases]_vars

\* the second cell takes its first step of the second mini-run, after a first
\* mini-run of two batches
C30_Witness ==
    /\ steps_pc = "training"
    /\ steps_mini_run = 1
    /\ steps_cell = 1
    /\ started_from = <<{2}, {2}>>
    /\ global_step = <<3, 3>>

====
